---- MODULE Spec2Model ----
(***************************************************************************)
(* A model of the provably-fair poker dealer: the PokerEntropyDealerV2     *)
(* commit-reveal ledger, the deterministic Fisher-Yates shuffle of both    *)
(* dealer contracts, and the PokerEngine betting state machine.            *)
(***************************************************************************)
EXTENDS Integers, Sequences, FiniteSets, TLC

(***************************************************************************)
(* Bounds of the model.                                                    *)
(***************************************************************************)
\* game ids are 0..MaxGameId; 0 stands for bytes32(0)
MaxGameId == 1
\* hosts commit to the salts 1..MaxSalt; a reveal may name those and one more
MaxSalt == 1
\* random numbers delivered by the RNG are 0..MaxRandom
MaxRandom == 1
\* longest dealtCards / cardPositions array handed to revealAndVerify
MaxDealt == 2
\* seeds of the shuffle specification are 0..MaxSeed
MaxSeed == 149
\* width, in bits, of the words that stand for 256-bit values
HashBits == 16

\* seats at the table
NumPlayers == 3
\* chips every seat starts the game with
StartingChips == 4
\* the blinds
SmallBlind == 1
BigBlind == 2
\* a raise names an amount in 1 .. MaxRaise
MaxRaise == 2
\* hands dealt in one game
MaxHands == 2
\* player actions taken in one hand
MaxBettingActions == 12
\* shuffles that fail in one game
MaxShuffleFailures == 1
\* the shuffle service deals _shuffle(seed) for a seed in 0 .. MaxDeckSeed
MaxDeckSeed == 0
\* evaluation: cards the two hands are drawn from
MaxEvalCards == 7
\* hands dealt in the winners specification
MaxWinnersHands == 1
\* hands set up in the long game; the last one is set up and not played
MaxLongHands == 3
\* the settings of the table whose small blind is more than one chip
TableStartingChips == 5
TableSmallBlind == 2
TableBigBlind == 4

(***************************************************************************)
(* Program constants.                                                      *)
(***************************************************************************)
DeckSize == 52

HashMod == 2 ^ HashBits

GameIds == 0 .. MaxGameId
Salts == 1 .. MaxSalt
RevealSalts == 1 .. (MaxSalt + 1)
RandomNumbers == 0 .. MaxRandom
\* Each session is issued at most one sequence number, so the RNG issues
\* 1 .. MaxGameId + 1 at most; 0 and MaxGameId + 2 are never issued.
SeqNumbers == 0 .. (MaxGameId + 2)

VARIABLES
    games,          \* mapping(bytes32 => GameSession)
    seqToGameId,    \* mapping(uint64 => bytes32)
    entropySeq,     \* last sequence number the Entropy contract has issued
    lastCall,       \* the last transaction: what was called, whether it reverted, its result
    hostSalt,       \* reveal specification: the salt the host commits to
    rngValue,       \* reveal specification: the random number the RNG delivers
    rvSalt,         \* reveal specification: the salt handed to revealAndVerify
    rvCards,        \* reveal specification: dealtCards handed to revealAndVerify
    rvPositions,    \* reveal specification: cardPositions handed to revealAndVerify
    shSeed,         \* shuffle specification: the seed
    shPacked,       \* shuffle specification: V2 _shuffle(seed), <<>> before the call
    shPackedV1,     \* shuffle specification: V1 _shuffle(seed), <<>> before the call
    gameState,      \* the engine's GameState
    handCounter,    \* hands started so far (sharedGame.handCounter)
    showdownData,   \* whether the showdown dialog is up (showdownData is not null)
    isDealing,      \* whether the host awaits a shuffle
    dealingError,   \* whether the error dialog is up (dealingError is not null)
    shuffleFailures, \* shuffles that have failed so far
    actionReq,      \* the shared action request (actionReq, actionProcessed)
    lastOrigin,     \* where the host's last performAction came from
    evHandA,        \* evaluation specification: the cards of hand A
    evHandB,        \* evaluation specification: the cards of hand B
    evResult,       \* evaluation specification: the two evaluations, <<>> before the call
    sdWinners,      \* what the last getShowdownData() returned as winners
    passive,        \* passive specification: every seat checks or calls from now on
    passiveNext,    \* passive specification: the GameState the next such action leaves
    localStorage,   \* leader specification: the browser's localStorage (clientId, pokerHostLeader-<room>)
    tabs,           \* leader specification: the tabs open on the room
    creatorId,      \* leader specification: tableSettings.creatorId, shared by all tabs
    now,            \* leader specification: Date.now()
    gameStarted,    \* start specification: the shared gameStarted flag
    sharedGame,     \* start specification: the shared game, <<>> while it is null
    hasEngine,      \* start specification: whether the host's engine is not null
    lastShuffleAction, \* start specification: what the error dialog's Retry repeats
    startCaller     \* start specification: who awaits startGame

ledgerVars == <<games, seqToGameId, entropySeq, lastCall>>
revealVars == <<hostSalt, rngValue, rvSalt, rvCards, rvPositions>>
shuffleVars == <<shSeed, shPacked, shPackedV1>>
engineVars == <<gameState, handCounter, showdownData, isDealing, dealingError, shuffleFailures>>
requestVars == <<actionReq, lastOrigin>>
evalVars == <<evHandA, evHandB, evResult, sdWinners>>
passiveVars == <<passive, passiveNext>>
leaderVars == <<localStorage, tabs, creatorId, now>>
startVars == <<gameStarted, sharedGame, hasEngine, lastShuffleAction, startCaller>>
hostVars == <<leaderVars, startVars>>
vars == <<games, seqToGameId, entropySeq, lastCall,
          hostSalt, rngValue, rvSalt, rvCards, rvPositions,
          shSeed, shPacked, shPackedV1,
          gameState, handCounter, showdownData, isDealing, dealingError, shuffleFailures,
          actionReq, lastOrigin, evHandA, evHandB, evResult, sdWinners, passive, passiveNext,
          localStorage, tabs, creatorId, now,
          gameStarted, sharedGame, hasEngine, lastShuffleAction, startCaller>>

(***************************************************************************)
(* The host's browser before any tab is open on the room and before the    *)
(* game is started.                                                        *)
(***************************************************************************)
\* tabs of the host's browser
MaxTabs == 2
\* ticks of the clock
MaxNow == 3
\* milliseconds in a tick of the clock
TickMs == 3000

Tabs == 1 .. MaxTabs
\* clientId values crypto.randomUUID() can return
ClientIds == 1 .. MaxTabs
\* localStorage.getItem(key) === null
NoItem == 0

ClosedTab == [open |-> FALSE, clientId |-> NoItem, isLeader |-> FALSE,
              ran |-> FALSE, depHost |-> FALSE, depLeader |-> FALSE, listening |-> FALSE]

LeaderIdle ==
    /\ localStorage = [clientId |-> NoItem, leader |-> <<>>]
    /\ tabs = [t \in Tabs |-> ClosedTab]
    /\ creatorId = NoItem
    /\ now = 0

StartIdle ==
    /\ gameStarted = FALSE
    /\ sharedGame = <<>>
    /\ hasEngine = FALSE
    /\ lastShuffleAction = "none"
    /\ startCaller = "none"

HostIdle == LeaderIdle /\ StartIdle

(***************************************************************************)
(* keccak256(abi.encodePacked(w1, ..., wn)): a fixed mixing function of    *)
(* the words, onto HashBits-bit words.                                     *)
(***************************************************************************)
RECURSIVE KeccakFrom(_, _, _)
KeccakFrom(h, ws, k) ==
    IF k > Len(ws) THEN (h * 4093 + (h \div 256) + 13849) % HashMod
    ELSE KeccakFrom((h * 31 + ws[k] * 7919 + k) % HashMod, ws, k + 1)

Keccak(ws) == KeccakFrom(4919, ws, 1)

(***************************************************************************)
(* _shuffle: Fisher-Yates over a hash-chained accumulator.  Decks are      *)
(* sequences; Solidity index k is element k+1.                             *)
(***************************************************************************)
IdentityDeck == [k \in 1 .. DeckSize |-> k - 1]

SwapNoTemp(deck, i, j) == [deck EXCEPT ![i + 1] = deck[j + 1]]

Swap(deck, i, j) == [deck EXCEPT ![i + 1] = deck[j + 1], ![j + 1] = deck[i + 1]]

\* The loop's variables before its first iteration: the identity deck, s = seed, i = 51.
LoopStart(seed) == [deck |-> IdentityDeck, s |-> seed, i |-> DeckSize - 1]

RECURSIVE ShuffleLoop(_)
ShuffleLoop(loop) ==
    IF loop.i = 0 THEN loop.deck
    ELSE LET s2 == Keccak(<<loop.s, loop.i>>)
             j == s2 % (loop.i + 1)
         IN ShuffleLoop([deck |-> Swap(loop.deck, loop.i, j), s |-> s2, i |-> loop.i - 1])

\* packed[k] = bytes1(deck[k])
Pack(deck) == [k \in 1 .. DeckSize |-> deck[k] % 256]

\* The decks of the seeds a reveal can compute, worked out once.
FinalSeeds == {Keccak(<<r, s>>) : r \in RandomNumbers, s \in RevealSalts}

ShuffledDecks ==
    [seed \in FinalSeeds |-> Pack(ShuffleLoop(LoopStart(seed)))]

_shuffle(seed) ==
    IF seed \in FinalSeeds THEN ShuffledDecks[seed]
    ELSE Pack(ShuffleLoop(LoopStart(seed)))

\* A loop that hashes the seed it was given anew at every step, without
\* chaining the hashes.
RECURSIVE ShuffleLoopUnchained(_)
ShuffleLoopUnchained(loop) ==
    IF loop.i = 0 THEN loop.deck
    ELSE LET s2 == Keccak(<<loop.s, loop.i>>)
             j == s2 % (loop.i + 1)
         IN ShuffleLoopUnchained([deck |-> Swap(loop.deck, loop.i, j), s |-> loop.s, i |-> loop.i - 1])

RECURSIVE ShuffleLoopV1(_)
ShuffleLoopV1(loop) ==
    IF loop.i = 0 THEN loop.deck
    ELSE LET s2 == Keccak(<<loop.s, loop.i>>)
             j == s2 % (loop.i + 1)
         IN ShuffleLoopV1([deck |-> Swap(loop.deck, loop.i, j), s |-> s2, i |-> loop.i - 1])

_shuffleV1(seed) == Pack(ShuffleLoopV1(LoopStart(seed)))

(***************************************************************************)
(* The ledger (PokerEntropyDealerV2).                                      *)
(***************************************************************************)
EmptySession ==
    [saltHash |-> 0, pythSeed |-> 0, revealedSalt |-> 0, host |-> 0,
     sequenceNumber |-> 0, vrfFulfilled |-> FALSE, gameEnded |-> FALSE,
     verified |-> FALSE]

\* What a transaction leaves to see: the function, the session and sequence
\* number it named, whether it went through (ok) or reverted, and the value
\* revealAndVerify returned.
Call(op, gameId, seq, ok, valid) ==
    [op |-> op, gameId |-> gameId, seq |-> seq, ok |-> ok, valid |-> valid]

NoCall == Call("none", 0, 0, FALSE, FALSE)

\* A revert undoes every write of the transaction.
Reverted(op, gameId, seq) ==
    /\ lastCall' = Call(op, gameId, seq, FALSE, FALSE)
    /\ UNCHANGED <<games, seqToGameId, entropySeq>>

\* commitment values a host may send: bytes32(0) and the hashes of the salts
SaltHashes == {0} \cup {Keccak(<<s>>) : s \in Salts}

NeverCommitted(gameId) == FALSE

AlreadyCommitted(gameId) == games[gameId].saltHash # 0

commitSalt(gameId, saltHash) ==
    IF AlreadyCommitted(gameId) THEN Reverted("commitSalt", gameId, 0)
    ELSE IF saltHash = 0 THEN Reverted("commitSalt", gameId, 0)
    ELSE /\ games' = [games EXCEPT ![gameId] =
                         [EmptySession EXCEPT !.saltHash = saltHash, !.host = 1]]
         /\ lastCall' = Call("commitSalt", gameId, 0, TRUE, FALSE)
         /\ UNCHANGED <<seqToGameId, entropySeq>>

AlwaysRequestable(gameId) == FALSE

AlreadyRequested(gameId) == games[gameId].sequenceNumber # 0

\* entropy.requestV2 hands out the RNG's next sequence number, which is
\* never 0.
requestShuffle(gameId, feePaid) ==
    IF games[gameId].saltHash = 0 THEN Reverted("requestShuffle", gameId, 0)
    ELSE IF AlreadyRequested(gameId) THEN Reverted("requestShuffle", gameId, 0)
    ELSE IF ~feePaid THEN Reverted("requestShuffle", gameId, 0)
    ELSE LET seq == entropySeq + 1
         IN /\ games' = [games EXCEPT ![gameId].sequenceNumber = seq]
            /\ seqToGameId' = [seqToGameId EXCEPT ![seq] = gameId]
            /\ entropySeq' = seq
            /\ lastCall' = Call("requestShuffle", gameId, seq, TRUE, FALSE)

AnySequence(gameId) == TRUE

KnownSequence(gameId) == gameId # 0

entropyCallback(sequenceNumber, randomNumber) ==
    LET gameId == seqToGameId[sequenceNumber]
    IN IF ~KnownSequence(gameId) THEN Reverted("entropyCallback", 0, sequenceNumber)
       ELSE /\ games' = [games EXCEPT ![gameId].pythSeed = randomNumber,
                                      ![gameId].vrfFulfilled = TRUE]
            /\ lastCall' = Call("entropyCallback", gameId, sequenceNumber, TRUE, FALSE)
            /\ UNCHANGED <<seqToGameId, entropySeq>>

\* The verification loop of revealAndVerify from index i on: "valid",
\* "invalid" at the first mismatch, or "revert" at a position >= 52 that is
\* reached before any mismatch.
RECURSIVE VerifyLoopFirstOnly(_, _, _, _)
VerifyLoopFirstOnly(deck, dealtCards, cardPositions, i) ==
    IF i > Len(dealtCards) \/ i > 1 THEN "valid"
    ELSE IF ~(cardPositions[i] < DeckSize) THEN "revert"
    ELSE IF deck[cardPositions[i] + 1] # dealtCards[i] THEN "invalid"
    ELSE VerifyLoopFirstOnly(deck, dealtCards, cardPositions, i + 1)

RECURSIVE VerifyLoopLenient(_, _, _, _)
VerifyLoopLenient(deck, dealtCards, cardPositions, i) ==
    IF i > Len(dealtCards) THEN "valid"
    ELSE IF ~(cardPositions[i] < DeckSize) THEN "invalid"
    ELSE IF deck[cardPositions[i] + 1] # dealtCards[i] THEN "invalid"
    ELSE VerifyLoopLenient(deck, dealtCards, cardPositions, i + 1)

RECURSIVE VerifyLoop(_, _, _, _)
VerifyLoop(deck, dealtCards, cardPositions, i) ==
    IF i > Len(dealtCards) THEN "valid"
    ELSE IF ~(cardPositions[i] < DeckSize) THEN "revert"
    ELSE IF deck[cardPositions[i] + 1] # dealtCards[i] THEN "invalid"
    ELSE VerifyLoop(deck, dealtCards, cardPositions, i + 1)

AnySalt(salt, saltHash) == TRUE

SaltMatches(salt, saltHash) == Keccak(<<salt>>) = saltHash

VrfAssumed(game) == TRUE

VrfFulfilled(game) == game.vrfFulfilled

revealAndVerify(gameId, salt, dealtCards, cardPositions) ==
    LET game == games[gameId]
        finalSeed == Keccak(<<game.pythSeed, salt>>)
        deck == _shuffle(finalSeed)
        res == VerifyLoop(deck, dealtCards, cardPositions, 1)
    IN IF ~VrfFulfilled(game) THEN Reverted("revealAndVerify", gameId, 0)
       ELSE IF game.gameEnded THEN Reverted("revealAndVerify", gameId, 0)
       ELSE IF Len(dealtCards) # Len(cardPositions)
            THEN Reverted("revealAndVerify", gameId, 0)
       ELSE IF ~SaltMatches(salt, game.saltHash)
            THEN Reverted("revealAndVerify", gameId, 0)
       ELSE IF res = "revert" THEN Reverted("revealAndVerify", gameId, 0)
       ELSE /\ games' = [games EXCEPT ![gameId].revealedSalt = salt,
                                      ![gameId].gameEnded = TRUE,
                                      ![gameId].verified = (res = "valid")]
            /\ lastCall' = Call("revealAndVerify", gameId, 0, TRUE, res = "valid")
            /\ UNCHANGED <<seqToGameId, entropySeq>>

(***************************************************************************)
(* The game engine (PokerEngine).  Seats are 0 .. NumPlayers - 1 as in the *)
(* source; a sequence holds an array, index k of the array being element   *)
(* k + 1.  A GameState is a record; every method is an operator from the   *)
(* GameState it is called on to the GameState it leaves.  The log is       *)
(* written but never read, and is left out; a player's name is SeatName of *)
(* its seat.                                                               *)
(***************************************************************************)
PlayerIds == 0 .. (NumPlayers - 1)
RaiseAmounts == 1 .. MaxRaise

\* enum GameStage
PreFlop == "Pre-Flop"
Flop == "Flop"
Turn == "Turn"
River == "River"
Showdown == "Showdown"

\* enum Rank: the ranks the wheel names, and the lowest and highest rank
Two == 2
Three == 3
Four == 4
Five == 5
Ace == 14

\* enum HandRank
HighCard == 1
OnePair == 2
TwoPair == 3
ThreeOfAKind == 4
Straight == 5
Flush == 6
FullHouse == 7
FourOfAKind == 8
StraightFlush == 9
RoyalFlush == 10

suitValues == <<"Hearts", "Diamonds", "Clubs", "Spades">>

MinOf(S) == CHOOSE x \in S : \A y \in S : x <= y
MaxOf(S) == CHOOSE x \in S : \A y \in S : x >= y
Min2(a, b) == IF a <= b THEN a ELSE b
Max2(a, b) == IF a >= b THEN a ELSE b

RECURSIVE SumOver(_, _)
SumOver(f, S) ==
    IF S = {} THEN 0
    ELSE LET x == CHOOSE y \in S : TRUE
         IN f[x] + SumOver(f, S \ {x})

\* constructor(playerNames, startingChips, autoStart = false, smallBlind, bigBlind)
NewPlayer ==
    [chips |-> StartingChips, holeCards |-> <<>>, isActive |-> TRUE,
     isFolded |-> FALSE, isAllIn |-> FALSE, currentBet |-> 0, totalBetInRound |-> 0]

NewEngine ==
    [players |-> [p \in PlayerIds |-> NewPlayer],
     deck |-> <<>>, communityCards |-> <<>>, pot |-> 0, currentBet |-> 0,
     stage |-> PreFlop, dealerPosition |-> 0, smallBlindPosition |-> 0,
     bigBlindPosition |-> 0, currentPlayerIndex |-> 0, lastToActIndex |-> 0,
     lastRaiseAmount |-> BigBlind, smallBlind |-> SmallBlind, bigBlind |-> BigBlind,
     sidePots |-> <<>>, bettingActions |-> 0]

\* drawMany(n) returns deck.splice(0, n); Spliced is the deck it leaves.
drawMany(deck, n) == SubSeq(deck, 1, Min2(n, Len(deck)))
\* A draw that reads the front of the deck and leaves the deck whole.
Sliced(deck, n) == deck
Spliced(deck, n) == SubSeq(deck, Min2(n, Len(deck)) + 1, Len(deck))
\* A burn that leaves the deck alone.
burnNothing(deck) == deck
burn(deck) == Spliced(deck, 1)

isBettingRoundComplete(gs, originIdx) ==
    LET contenders == {p \in PlayerIds : /\ ~gs.players[p].isFolded
                                         /\ ~gs.players[p].isAllIn
                                         /\ gs.players[p].chips > 0}
        allMatched == \A p \in contenders : gs.players[p].currentBet = gs.currentBet
    IN IF contenders = {} THEN TRUE
       ELSE IF ~allMatched THEN FALSE
       ELSE IF gs.stage = PreFlop THEN originIdx = gs.lastToActIndex
       ELSE IF gs.currentBet = 0 THEN originIdx = gs.lastToActIndex
       ELSE originIdx = gs.lastToActIndex

advanceFrom(gs, startIdx) ==
    LET n == NumPlayers
        offsets == {offset \in 1 .. n :
                      LET cand == gs.players[(startIdx + offset) % n]
                      IN ~cand.isFolded /\ cand.chips > 0}
    IN IF offsets = {} THEN gs
       ELSE [gs EXCEPT !.currentPlayerIndex = (startIdx + MinOf(offsets)) % n]

resetRoundBets(gs) ==
    LET n == NumPlayers
        offsets == {offset \in 0 .. (n - 1) :
                      ~gs.players[(gs.dealerPosition - offset + n) % n].isFolded}
    IN [gs EXCEPT !.players = [p \in PlayerIds |-> [gs.players[p] EXCEPT !.currentBet = 0]],
                  !.currentBet = 0,
                  !.lastToActIndex = IF offsets = {} THEN @
                                     ELSE (gs.dealerPosition - MinOf(offsets) + n) % n,
                  !.lastRaiseAmount = gs.bigBlind]

\* One case of nextStage: burn a card, deal count community cards, reset the bets.
DealStreet(gs, stage, count) ==
    LET burnt == burn(gs.deck)
    IN resetRoundBets([gs EXCEPT !.stage = stage,
                                 !.deck = Spliced(burnt, count),
                                 !.communityCards = @ \o drawMany(burnt, count)])

nextStage(gs) ==
    CASE gs.stage = PreFlop -> DealStreet(gs, Flop, 3)
      [] gs.stage = Flop -> DealStreet(gs, Turn, 1)
      [] gs.stage = Turn -> DealStreet(gs, River, 1)
      [] gs.stage = River -> [gs EXCEPT !.stage = Showdown]
      [] OTHER -> gs

\* The cascade left out: the stage stays where the round's completion put it.
NoRunOut(gs) == gs

\* while (stage !== Showdown) nextStage()
RECURSIVE RunOut(_)
RunOut(gs) == IF gs.stage = Showdown THEN gs ELSE RunOut(nextStage(gs))

postActionHandler(gs, originIdx) ==
    LET counted == [gs EXCEPT !.bettingActions = @ + 1]
        remaining == {p \in PlayerIds : ~counted.players[p].isFolded}
        advanced == advanceFrom(counted, originIdx)
        staged == nextStage(advanced)
        canAct == \E p \in PlayerIds : /\ ~staged.players[p].isFolded
                                       /\ ~staged.players[p].isAllIn
                                       /\ staged.players[p].chips > 0
    IN IF Cardinality(remaining) = 1 THEN [counted EXCEPT !.stage = Showdown]
       ELSE IF ~isBettingRoundComplete(advanced, originIdx) THEN advanced
       ELSE IF staged.stage = Showdown THEN staged
       ELSE IF ~canAct THEN RunOut(staged)
       ELSE advanceFrom(staged, staged.dealerPosition)

\* A wager that leaves the player's stack and never reaches the pot.
WagerOffPot(gs, playerId, wager) ==
    [gs EXCEPT !.players[playerId] =
                   [@ EXCEPT !.chips = @ - wager,
                             !.currentBet = @ + wager,
                             !.totalBetInRound = @ + wager,
                             !.isAllIn = IF gs.players[playerId].chips - wager = 0
                                         THEN TRUE ELSE @]]

\* The chip movement of bet and call: chips -= wager; currentBet += wager;
\* totalBetInRound += wager; pot += wager; all-in when no chips are left.
Wager(gs, playerId, wager) ==
    [gs EXCEPT !.players[playerId] =
                   [@ EXCEPT !.chips = @ - wager,
                             !.currentBet = @ + wager,
                             !.totalBetInRound = @ + wager,
                             !.isAllIn = IF gs.players[playerId].chips - wager = 0
                                         THEN TRUE ELSE @],
               !.pot = @ + wager]

\* A check that does not look at the bets.
checkFacingBet(gs, playerId) ==
    LET player == gs.players[playerId]
    IN IF player.isFolded \/ player.isAllIn \/ gs.stage = Showdown \/ player.chips <= 0
       THEN gs
       ELSE postActionHandler(gs, playerId)

check(gs, playerId) ==
    LET player == gs.players[playerId]
    IN IF player.isFolded \/ player.isAllIn \/ gs.stage = Showdown \/ player.chips <= 0
       THEN gs
       ELSE IF player.currentBet # gs.currentBet THEN gs
       ELSE postActionHandler(gs, playerId)

call(gs, playerId) ==
    LET player == gs.players[playerId]
        toCall == gs.currentBet - player.currentBet
    IN IF player.isFolded \/ player.isAllIn \/ gs.stage = Showdown \/ player.chips <= 0
       THEN gs
       ELSE IF toCall <= 0 THEN check(gs, playerId)
       ELSE postActionHandler(Wager(gs, playerId, Min2(toCall, player.chips)), playerId)

\* bet with the under-minimum test on the stack: it turns into a call when the
\* player's chips reach minRaise, whatever the amount is next to the stack.
betMeetingMinimum(gs, playerId, amount) ==
    LET player == gs.players[playerId]
        prevBet == gs.currentBet
        minRaise == IF prevBet = 0 THEN gs.bigBlind ELSE gs.lastRaiseAmount
        wagered == Wager(gs, playerId, Min2(amount, player.chips))
        newBet == wagered.players[playerId].currentBet
        raised == IF newBet > prevBet
                  THEN [wagered EXCEPT !.lastRaiseAmount = newBet - prevBet,
                                       !.currentBet = newBet,
                                       !.lastToActIndex = playerId]
                  ELSE wagered
    IN IF \/ player.isFolded \/ player.isAllIn \/ gs.stage = Showdown
          \/ player.chips <= 0 \/ amount <= 0
       THEN gs
       ELSE IF amount < minRaise /\ player.chips >= minRaise THEN call(gs, playerId)
       ELSE postActionHandler(raised, playerId)

\* A bet that does not look at the stage.
betAtShowdown(gs, playerId, amount) ==
    LET player == gs.players[playerId]
        prevBet == gs.currentBet
        minRaise == IF prevBet = 0 THEN gs.bigBlind ELSE gs.lastRaiseAmount
        wagered == Wager(gs, playerId, Min2(amount, player.chips))
        newBet == wagered.players[playerId].currentBet
        raised == IF newBet > prevBet
                  THEN [wagered EXCEPT !.lastRaiseAmount = newBet - prevBet,
                                       !.currentBet = newBet,
                                       !.lastToActIndex = playerId]
                  ELSE wagered
    IN IF player.isFolded \/ player.isAllIn \/ player.chips <= 0 \/ amount <= 0
       THEN gs
       ELSE IF amount < minRaise /\ amount < player.chips THEN call(gs, playerId)
       ELSE postActionHandler(raised, playerId)

\* bet(playerId, amount); skipPost is false in every call.
bet(gs, playerId, amount) ==
    LET player == gs.players[playerId]
        prevBet == gs.currentBet
        minRaise == IF prevBet = 0 THEN gs.bigBlind ELSE gs.lastRaiseAmount
        wagered == Wager(gs, playerId, Min2(amount, player.chips))
        newBet == wagered.players[playerId].currentBet
        raised == IF newBet > prevBet
                  THEN [wagered EXCEPT !.lastRaiseAmount = newBet - prevBet,
                                       !.currentBet = newBet,
                                       !.lastToActIndex = playerId]
                  ELSE wagered
    IN IF \/ player.isFolded \/ player.isAllIn \/ gs.stage = Showdown
          \/ player.chips <= 0 \/ amount <= 0
       THEN gs
       ELSE IF amount < minRaise /\ amount < player.chips THEN call(gs, playerId)
       ELSE postActionHandler(raised, playerId)

\* A fold that only marks the player and passes the turn on.
foldAndPass(gs, playerId) ==
    LET player == gs.players[playerId]
    IN IF player.isFolded \/ player.isAllIn \/ gs.stage = Showdown THEN gs
       ELSE advanceFrom([gs EXCEPT !.players[playerId].isFolded = TRUE,
                                   !.bettingActions = @ + 1], playerId)

fold(gs, playerId) ==
    LET player == gs.players[playerId]
    IN IF player.isFolded \/ player.isAllIn \/ gs.stage = Showdown THEN gs
       ELSE postActionHandler([gs EXCEPT !.players[playerId].isFolded = TRUE], playerId)

allIn(gs, playerId) ==
    LET player == gs.players[playerId]
    IN IF player.isFolded \/ player.isAllIn \/ gs.stage = Showdown \/ player.chips <= 0
       THEN gs
       ELSE [bet(gs, playerId, player.chips) EXCEPT !.players[playerId].isAllIn = TRUE]

(***************************************************************************)
(* Hand evaluation.  A card is [rank, suit]; an evaluation is [rank,       *)
(* value] (its description and its five cards are never read).             *)
(***************************************************************************)
RankSet(cards) == {cards[k].rank : k \in 1 .. Len(cards)}
RankCount(cards, r) == Cardinality({k \in 1 .. Len(cards) : cards[k].rank = r})

\* [...cards].sort((a, b) => b.rank - a.rank): stable, descending by rank
RECURSIVE SortByRank(_, _)
SortByRank(cards, r) ==
    IF r < Two THEN <<>>
    ELSE SelectSeq(cards, LAMBDA c : c.rank = r) \o SortByRank(cards, r - 1)

RECURSIVE Descending(_)
Descending(S) == IF S = {} THEN <<>> ELSE <<MaxOf(S)>> \o Descending(S \ {MaxOf(S)})

\* rankCounts' entries sorted by count, then rank, both descending: the ranks
\* held count times, highest first, for count = 4, 3, 2, 1
RECURSIVE SortCountRanks(_, _)
SortCountRanks(cards, count) ==
    IF count = 0 THEN <<>>
    ELSE Descending({r \in RankSet(cards) : RankCount(cards, r) = count})
         \o SortCountRanks(cards, count - 1)

\* sortedCards.find(c => c.rank === r)
FindRank(sortedCards, r) ==
    sortedCards[MinOf({k \in 1 .. Len(sortedCards) : sortedCards[k].rank = r})]

checkStraight(sortedCards) ==
    LET rankSet == RankSet(sortedCards)
        uniqueRanks == Descending(rankSet)
        starts == {i \in 1 .. (Len(uniqueRanks) - 4) :
                     \A j \in 0 .. 3 : uniqueRanks[i + j] - uniqueRanks[i + j + 1] = 1}
        wheel == <<Ace, Five, Four, Three, Two>>
    IN IF starts # {}
       THEN [isStraight |-> TRUE,
             cards |-> [j \in 1 .. 5 |-> FindRank(sortedCards, uniqueRanks[MinOf(starts) + j - 1])]]
       ELSE IF \A k \in 1 .. 5 : wheel[k] \in rankSet
       THEN [isStraight |-> TRUE, cards |-> [k \in 1 .. 5 |-> FindRank(sortedCards, wheel[k])]]
       ELSE [isStraight |-> FALSE, cards |-> <<>>]

\* sum of card.rank * 100^(4 - idx) over the first five cards
HighValue(cards) ==
    SumOver([idx \in 0 .. 4 |-> cards[idx + 1].rank * (100 ^ (4 - idx))], 0 .. 4)

\* throw new Error('Need at least 5 cards to evaluate hand')
InsufficientCards == [error |-> "Need at least 5 cards to evaluate hand"]

evaluateHand(cards) ==
    IF Len(cards) < 5 THEN InsufficientCards ELSE
    LET sortedCards == SortByRank(cards, Ace)
        countRanks == SortCountRanks(cards, Len(cards))
        first == RankCount(cards, countRanks[1])
        second == IF Len(countRanks) >= 2 THEN RankCount(cards, countRanks[2]) ELSE 0
        flushSuits == {s \in {suitValues[k] : k \in 1 .. 4} :
                         Cardinality({k \in 1 .. Len(cards) : cards[k].suit = s}) >= 5}
        isFlush == flushSuits # {}
        flushSuit == sortedCards[MinOf({k \in 1 .. Len(sortedCards) :
                                          sortedCards[k].suit \in flushSuits})].suit
        flushCards == SubSeq(SelectSeq(sortedCards, LAMBDA c : c.suit = flushSuit), 1, 5)
        straightResult == checkStraight(sortedCards)
        isStraight == straightResult.isStraight
        straightCards == straightResult.cards
    IN IF isFlush /\ isStraight /\ straightCards[1].rank = Ace
       THEN [rank |-> RoyalFlush, value |-> 10000000]
       ELSE IF isFlush /\ isStraight
       THEN [rank |-> StraightFlush, value |-> 9000000 + straightCards[1].rank]
       ELSE IF first = 4
       THEN [rank |-> FourOfAKind, value |-> 8000000 + countRanks[1] * 100 + countRanks[2]]
       ELSE IF first = 3 /\ second = 2
       THEN [rank |-> FullHouse, value |-> 7000000 + countRanks[1] * 100 + countRanks[2]]
       ELSE IF isFlush
       THEN [rank |-> Flush, value |-> 6000000 + HighValue(flushCards)]
       ELSE IF isStraight
       THEN [rank |-> Straight, value |-> 5000000 + straightCards[1].rank]
       ELSE IF first = 3
       THEN [rank |-> ThreeOfAKind,
             value |-> 4000000 + countRanks[1] * 10000 + countRanks[2] * 100 + countRanks[3]]
       ELSE IF first = 2 /\ second = 2
       THEN [rank |-> TwoPair,
             value |-> 3000000 + countRanks[1] * 10000 + countRanks[2] * 100 + countRanks[3]]
       ELSE IF first = 2
       THEN [rank |-> OnePair,
             value |-> 2000000 + countRanks[1] * 10000 + countRanks[2] * 100
                       + countRanks[3] * 10 + countRanks[4]]
       ELSE [rank |-> HighCard, value |-> 1000000 + HighValue(SubSeq(sortedCards, 1, 5))]

\* The players whose hole cards and the board make five cards or more, and
\* their evaluations (the map evaluateWinners and settlePot both build).
Evaluated(gs) ==
    {p \in PlayerIds : /\ ~gs.players[p].isFolded
                       /\ gs.players[p].isActive
                       /\ Len(gs.players[p].holeCards) + Len(gs.communityCards) >= 5}

RECURSIVE EvaluationsOf(_, _)
EvaluationsOf(gs, S) ==
    IF S = {} THEN <<>>
    ELSE LET p == CHOOSE x \in S : TRUE
         IN (p :> evaluateHand(gs.players[p].holeCards \o gs.communityCards))
            @@ EvaluationsOf(gs, S \ {p})

Evaluations(gs) == EvaluationsOf(gs, Evaluated(gs))

\* Highest rank first, then highest value within that rank.
BestOf(evaluations, S) ==
    LET maxRank == MaxOf({evaluations[p].rank : p \in S})
        topRank == {p \in S : evaluations[p].rank = maxRank}
        bestValue == MaxOf({evaluations[p].value : p \in topRank})
    IN {p \in topRank : evaluations[p].value = bestValue}

\* An evaluateWinners that hands on the failure of evaluateHand.
evaluateWinnersOrFail(gs) ==
    LET active == {p \in PlayerIds : ~gs.players[p].isFolded /\ gs.players[p].isActive}
    IN IF Cardinality(active) = 1 THEN active
       ELSE IF Evaluated(gs) # active THEN {}
       ELSE BestOf(Evaluations(gs), Evaluated(gs))

evaluateWinners(gs) ==
    LET active == {p \in PlayerIds : ~gs.players[p].isFolded /\ gs.players[p].isActive}
    IN IF Cardinality(active) = 1 THEN active
       ELSE IF Evaluated(gs) = {} THEN active
       ELSE BestOf(Evaluations(gs), Evaluated(gs))

(***************************************************************************)
(* Settlement.  A side pot is [amount, eligiblePlayers], eligiblePlayers   *)
(* being the set of the seats the array lists.                             *)
(***************************************************************************)
\* activePlayers.filter(p => p.isAllIn).map(p => p.totalBetInRound).sort((a, b) => a - b)
RECURSIVE SortAmounts(_, _)
SortAmounts(players, S) ==
    IF S = {} THEN <<>>
    ELSE LET p == CHOOSE x \in S : \A y \in S :
                     players[x].totalBetInRound <= players[y].totalBetInRound
         IN <<players[p].totalBetInRound>> \o SortAmounts(players, S \ {p})

\* The for loop of calculateSidePots from its k-th amount on: the side pots,
\* and the level (previous) it ends at.
RECURSIVE SidePotLoop(_, _, _, _, _, _)
SidePotLoop(players, activePlayers, allInAmounts, k, previous, sidePots) ==
    IF k > Len(allInAmounts) THEN [sidePots |-> sidePots, previous |-> previous]
    ELSE LET amount == allInAmounts[k]
             potAmount == SumOver([p \in activePlayers |->
                              Max2(0, Min2(players[p].totalBetInRound, amount) - previous)],
                              activePlayers)
             eligible == {p \in activePlayers : players[p].totalBetInRound >= amount}
         IN SidePotLoop(players, activePlayers, allInAmounts, k + 1, amount,
                        IF potAmount > 0
                        THEN Append(sidePots, [amount |-> potAmount, eligiblePlayers |-> eligible])
                        ELSE sidePots)

\* A calculateSidePots that keeps the folded contributors among the players
\* of the pots.
calculateSidePotsWithFolded(gs) ==
    LET activePlayers == {p \in PlayerIds : gs.players[p].totalBetInRound > 0}
        allInAmounts == SortAmounts(gs.players, {p \in activePlayers : gs.players[p].isAllIn})
        loop == SidePotLoop(gs.players, activePlayers, allInAmounts, 1, 0, <<>>)
        mainAmount == SumOver([p \in activePlayers |->
                          Max2(0, gs.players[p].totalBetInRound - loop.previous)], activePlayers)
    IN [gs EXCEPT !.sidePots =
            IF mainAmount > 0
            THEN Append(loop.sidePots, [amount |-> mainAmount, eligiblePlayers |-> activePlayers])
            ELSE loop.sidePots]

calculateSidePots(gs) ==
    LET activePlayers == {p \in PlayerIds : /\ ~gs.players[p].isFolded
                                            /\ gs.players[p].totalBetInRound > 0}
        allInAmounts == SortAmounts(gs.players, {p \in activePlayers : gs.players[p].isAllIn})
        loop == SidePotLoop(gs.players, activePlayers, allInAmounts, 1, 0, <<>>)
        mainAmount == SumOver([p \in activePlayers |->
                          Max2(0, gs.players[p].totalBetInRound - loop.previous)], activePlayers)
    IN [gs EXCEPT !.sidePots =
            IF mainAmount > 0
            THEN Append(loop.sidePots, [amount |-> mainAmount, eligiblePlayers |-> activePlayers])
            ELSE loop.sidePots]

\* winners.forEach(w => w.chips += share)
Award(players, winners, share) ==
    [p \in PlayerIds |-> IF p \in winners THEN [players[p] EXCEPT !.chips = @ + share]
                         ELSE players[p]]

\* sidePots.forEach(...) of settlePot, from the k-th side pot on
RECURSIVE AwardSidePots(_, _, _, _, _)
AwardSidePots(players, sidePots, k, evaluated, evaluationsCache) ==
    IF k > Len(sidePots) THEN players
    ELSE LET sidePot == sidePots[k]
             eligibleEvaluations == sidePot.eligiblePlayers \cap evaluated
             winners == IF eligibleEvaluations = {} THEN sidePot.eligiblePlayers
                        ELSE BestOf(evaluationsCache, eligibleEvaluations)
             share == sidePot.amount \div Cardinality(winners)
         IN AwardSidePots(Award(players, winners, share), sidePots, k + 1,
                          evaluated, evaluationsCache)

settlePot(gs) ==
    LET remaining == {p \in PlayerIds : ~gs.players[p].isFolded /\ gs.players[p].isActive}
        potted == calculateSidePots(gs)
        winners == evaluateWinners(potted)
    IN IF Cardinality(remaining) = 1
       THEN [gs EXCEPT !.players = Award(@, remaining, gs.pot)]
       ELSE IF potted.sidePots = <<>>
       THEN IF winners = {} THEN potted
            ELSE [potted EXCEPT !.players = Award(@, winners, potted.pot \div Cardinality(winners))]
       ELSE [potted EXCEPT !.players =
                 AwardSidePots(@, potted.sidePots, 1, Evaluated(potted), Evaluations(potted))]

(***************************************************************************)
(* Starting a hand.                                                        *)
(***************************************************************************)
\* bytes -> Card: suit index val % 4, rank index floor(val / 4), rank = index + 2
DecodeCard(val) == [rank |-> (val \div 4) + 2, suit |-> suitValues[(val % 4) + 1]]

\* The next seat, whatever its chips.
nextIdxAnySeat(players, from) == (from + 1) % NumPlayers

nextIdx(players, from) ==
    LET n == NumPlayers
        offs == {off \in 1 .. n : LET idx == (from + off) % n
                                  IN players[idx].chips > 0 /\ players[idx].isActive}
    IN IF offs = {} THEN from ELSE (from + MinOf(offs)) % n

\* A blind posted the way a bet is: it counts as a betting action.
postBlindAsAction(gs, idx, amount) ==
    [Wager(gs, idx, Min2(amount, gs.players[idx].chips)) EXCEPT !.bettingActions = @ + 1]

\* A blind posted in full, whatever the poster's chips.
postBlindUncapped(gs, idx, amount) == Wager(gs, idx, amount)

postBlind(gs, idx, amount) == Wager(gs, idx, Min2(amount, gs.players[idx].chips))

\* players.forEach(p => p.holeCards.push(...drawMany(1))), from seat p on;
\* dealing is the players and the deck.
RECURSIVE DealRound(_, _)
DealRound(dealing, p) ==
    IF p >= NumPlayers THEN dealing
    ELSE DealRound([players |-> [dealing.players EXCEPT
                                    ![p].holeCards = @ \o drawMany(dealing.deck, 1)],
                    deck |-> Spliced(dealing.deck, 1)],
                   p + 1)

\* A deal that hands every seat its two cards before the next seat gets any.
RECURSIVE DealPairs(_, _)
DealPairs(dealing, p) ==
    IF p >= NumPlayers THEN dealing
    ELSE DealPairs([players |-> [dealing.players EXCEPT
                                    ![p].holeCards = @ \o drawMany(dealing.deck, 2)],
                    deck |-> Spliced(dealing.deck, 2)],
                   p + 1)

dealHoleCardsInPairs(players, deck) == DealPairs([players |-> players, deck |-> deck], 0)

\* for (let i = 0; i < 2; i++) players.forEach(...): the players and the
\* deck after the two rounds
dealHoleCards(players, deck) ==
    DealRound(DealRound([players |-> players, deck |-> deck], 0), 0)

startNewHandInternal(gs, externalDeck) ==
    LET players == gs.players
        activeCount == Cardinality({p \in PlayerIds : players[p].chips > 0 /\ players[p].isActive})
        dealer == nextIdx(players, gs.dealerPosition)
        sb == IF activeCount = 2 THEN dealer ELSE nextIdx(players, dealer)
        bb == IF activeCount = 2 THEN nextIdx(players, dealer) ELSE nextIdx(players, sb)
        cleared == [p \in PlayerIds |-> [players[p] EXCEPT !.holeCards = <<>>,
                                                           !.isFolded = FALSE,
                                                           !.isAllIn = FALSE,
                                                           !.currentBet = 0,
                                                           !.totalBetInRound = 0]]
        dealt == dealHoleCards(cleared, externalDeck)
        reset == [gs EXCEPT !.dealerPosition = dealer,
                            !.smallBlindPosition = sb,
                            !.bigBlindPosition = bb,
                            !.pot = 0,
                            !.sidePots = <<>>,
                            !.currentBet = 0,
                            !.stage = PreFlop,
                            !.communityCards = <<>>,
                            !.bettingActions = 0,
                            !.players = dealt.players,
                            !.deck = dealt.deck]
        blinds == postBlind(postBlind(reset, sb, gs.smallBlind), bb, gs.bigBlind)
    IN IF activeCount < 2 THEN [gs EXCEPT !.stage = Showdown]
       ELSE [blinds EXCEPT !.currentBet = blinds.players[bb].currentBet,
                           !.currentPlayerIndex = nextIdx(blinds.players, bb),
                           !.lastToActIndex = bb,
                           !.lastRaiseAmount = gs.bigBlind]

\* packedDeck is the 52 bytes a dealer contract's _shuffle packs.
startNewHandWithPackedDeck(gs, packedDeck) ==
    startNewHandInternal(gs, [k \in 1 .. DeckSize |-> DecodeCard(packedDeck[k])])

\* The packed decks the shuffle service hands the host.
PackedDecks == {_shuffle(seed) : seed \in 0 .. MaxDeckSeed}

(***************************************************************************)
(* The host (GameContext): it applies every action to the seat whose turn  *)
(* it is, and between two hands settles the pot and awaits a shuffle.      *)
(***************************************************************************)
\* Seats are taken under distinct names (joinTable leaves the seats alone
\* when the name is taken); the table's creator sits in seat 0 and hosts.
SeatName(p) == <<"seat", p>>
HostSeat == 0

\* The shared action request: who asks (byName), for what, and whether the
\* host has yet to process it (actionProcessed < actionReq.seq).
NoRequest == [byName |-> <<>>, action |-> "none", amount |-> 0, pending |-> FALSE]

\* No getShowdownData() so far.
NoShowdownData == [called |-> FALSE, winners |-> {}]

EngineIdle ==
    /\ gameState = NewEngine
    /\ handCounter = 0
    /\ showdownData = FALSE
    /\ isDealing = FALSE
    /\ dealingError = FALSE
    /\ shuffleFailures = 0
    /\ actionReq = NoRequest
    /\ lastOrigin = "none"
    /\ evHandA = <<>>
    /\ evHandB = <<>>
    /\ evResult = <<>>
    /\ sdWinners = NoShowdownData
    /\ passive = FALSE
    /\ passiveNext = NewEngine
    /\ HostIdle

(***************************************************************************)
(* Inputs and specifications of the ledger.                                *)
(***************************************************************************)
\* Claimed positions: the last card of the deck and the first position past
\* it.  Claimed cards: the replayed deck's first and last card.
PosSamples == {DeckSize - 1, DeckSize}

CardSamples(deck) == {deck[1], deck[DeckSize]}

SeqsOfLen(S, n) == [1 .. n -> S]

LedgerInit ==
    /\ games = [g \in GameIds |-> EmptySession]
    /\ seqToGameId = [s \in SeqNumbers |-> 0]
    /\ entropySeq = 0
    /\ lastCall = NoCall

RevealIdle ==
    /\ hostSalt = 0
    /\ rngValue = 0
    /\ rvSalt = 0
    /\ rvCards = <<>>
    /\ rvPositions = <<>>

ShuffleIdle ==
    /\ shSeed = 0
    /\ shPacked = <<>>
    /\ shPackedV1 = <<>>

CommitSalt ==
    \E gameId \in GameIds, saltHash \in SaltHashes : commitSalt(gameId, saltHash)

RequestShuffle ==
    \E gameId \in GameIds, feePaid \in BOOLEAN : requestShuffle(gameId, feePaid)

EntropyCallback ==
    \E sequenceNumber \in SeqNumbers, randomNumber \in RandomNumbers :
        entropyCallback(sequenceNumber, randomNumber)

\* In the life-cycle specification a reveal claims at most one card.
RevealAndVerify ==
    \E gameId \in GameIds, salt \in RevealSalts :
        LET deck == _shuffle(Keccak(<<games[gameId].pythSeed, salt>>))
        IN \E n \in 0 .. 1 :
             \E dealtCards \in SeqsOfLen(CardSamples(deck), n),
                cardPositions \in SeqsOfLen(PosSamples, n) :
                 revealAndVerify(gameId, salt, dealtCards, cardPositions)

Init == LedgerInit /\ RevealIdle /\ ShuffleIdle /\ EngineIdle

Next ==
    \/ CommitSalt /\ UNCHANGED <<revealVars, shuffleVars, engineVars, requestVars, evalVars, passiveVars, hostVars>>
    \/ RequestShuffle /\ UNCHANGED <<revealVars, shuffleVars, engineVars, requestVars, evalVars, passiveVars, hostVars>>
    \/ EntropyCallback /\ UNCHANGED <<revealVars, shuffleVars, engineVars, requestVars, evalVars, passiveVars, hostVars>>
    \/ RevealAndVerify /\ UNCHANGED <<revealVars, shuffleVars, engineVars, requestVars, evalVars, passiveVars, hostVars>>

Spec == Init /\ [][Next]_vars

(***************************************************************************)
(* The reveal specification: one session, with the host's salt, the RNG's  *)
(* random number and the reveal transaction's arguments drawn at the start.*)
(***************************************************************************)
TheGame == MaxGameId

RevealInit ==
    /\ LedgerInit
    /\ ShuffleIdle
    /\ EngineIdle
    /\ hostSalt \in Salts
    /\ rngValue \in RandomNumbers
    /\ rvSalt \in RevealSalts
    /\ \E n \in 0 .. MaxDealt, m \in 0 .. MaxDealt :
         /\ m \in {n, n + 1}
         /\ rvCards \in SeqsOfLen(CardSamples(_shuffle(Keccak(<<rngValue, rvSalt>>))), n)
         /\ rvPositions \in SeqsOfLen(PosSamples, m)

RvCommit == commitSalt(TheGame, Keccak(<<hostSalt>>))

RvRequest == requestShuffle(TheGame, TRUE)

RvCallback == \E sequenceNumber \in SeqNumbers : entropyCallback(sequenceNumber, rngValue)

RvReveal == revealAndVerify(TheGame, rvSalt, rvCards, rvPositions)

RevealNext ==
    \/ RvCommit /\ UNCHANGED <<revealVars, shuffleVars, engineVars, requestVars, evalVars, passiveVars, hostVars>>
    \/ RvRequest /\ UNCHANGED <<revealVars, shuffleVars, engineVars, requestVars, evalVars, passiveVars, hostVars>>
    \/ RvCallback /\ UNCHANGED <<revealVars, shuffleVars, engineVars, requestVars, evalVars, passiveVars, hostVars>>
    \/ RvReveal /\ UNCHANGED <<revealVars, shuffleVars, engineVars, requestVars, evalVars, passiveVars, hostVars>>

SpecReveal == RevealInit /\ [][RevealNext]_vars

(***************************************************************************)
(* The shuffle specification: both contracts' _shuffle applied to a seed.  *)
(***************************************************************************)
ShuffleInit ==
    /\ LedgerInit
    /\ RevealIdle
    /\ EngineIdle
    /\ shSeed \in 0 .. MaxSeed
    /\ shPacked = <<>>
    /\ shPackedV1 = <<>>

ShuffleV2 ==
    /\ shPacked = <<>>
    /\ shPacked' = _shuffle(shSeed)
    /\ UNCHANGED <<shSeed, shPackedV1>>

ShuffleV1 ==
    /\ shPackedV1 = <<>>
    /\ shPackedV1' = _shuffleV1(shSeed)
    /\ UNCHANGED <<shSeed, shPacked>>

ShuffleNext ==
    \/ ShuffleV2 /\ UNCHANGED <<ledgerVars, revealVars, engineVars, requestVars, evalVars, passiveVars, hostVars>>
    \/ ShuffleV1 /\ UNCHANGED <<ledgerVars, revealVars, engineVars, requestVars, evalVars, passiveVars, hostVars>>

SpecShuffle == ShuffleInit /\ [][ShuffleNext]_vars

(***************************************************************************)
(* The engine specification: one game at one table, from startGame on.     *)
(***************************************************************************)
\* startGame, up to its await: the engine is built and the shuffle requested.
EngineInit ==
    /\ LedgerInit
    /\ RevealIdle
    /\ ShuffleIdle
    /\ gameState = NewEngine
    /\ handCounter = 0
    /\ showdownData = FALSE
    /\ isDealing = TRUE
    /\ dealingError = FALSE
    /\ shuffleFailures = 0
    /\ actionReq = NoRequest
    /\ lastOrigin = "none"
    /\ evHandA = <<>>
    /\ evHandB = <<>>
    /\ evResult = <<>>
    /\ sdWinners = NoShowdownData
    /\ passive = FALSE
    /\ passiveNext = NewEngine
    /\ HostIdle

\* performAction(action, amount) on the leader host
performAction(action, amount) ==
    LET idx == gameState.currentPlayerIndex
        gs == CASE action = "fold" -> fold(gameState, idx)
                [] action = "check" -> check(gameState, idx)
                [] action = "call" -> call(gameState, idx)
                [] action = "raise" -> bet(gameState, idx, amount)
                [] action = "allin" -> allIn(gameState, idx)
    IN /\ handCounter >= 1
       /\ gameState.bettingActions < MaxBettingActions
       /\ gameState' = gs
       /\ showdownData' = (gs.stage = Showdown)
       /\ UNCHANGED <<handCounter, isDealing, dealingError, shuffleFailures>>

Fold == performAction("fold", 0)
Check == performAction("check", 0)
CallBet == performAction("call", 0)
Raise == \E amount \in RaiseAmounts : performAction("raise", amount)
AllIn == performAction("allin", 0)

\* nextHand, up to its await: settle the pot, request the shuffle.
nextHand ==
    /\ gameState' = settlePot(gameState)
    /\ isDealing' = TRUE
    /\ UNCHANGED <<handCounter, showdownData, shuffleFailures>>

\* The showdown dialog's button; the error dialog, when up, covers it.
NextHand ==
    /\ showdownData
    /\ ~isDealing
    /\ ~dealingError
    /\ nextHand
    /\ UNCHANGED dealingError

\* startGame and nextHand after their await: the deck has arrived.
ShuffleArrived ==
    /\ isDealing
    /\ handCounter < MaxHands
    /\ \E packedDeck \in PackedDecks :
         gameState' = startNewHandWithPackedDeck(gameState, packedDeck)
    /\ showdownData' = FALSE
    /\ handCounter' = handCounter + 1
    /\ isDealing' = FALSE
    /\ UNCHANGED <<dealingError, shuffleFailures>>

\* nextHand after its await: the shuffle has failed.
ShuffleFailed ==
    /\ isDealing
    /\ handCounter >= 1
    /\ shuffleFailures < MaxShuffleFailures
    /\ dealingError' = TRUE
    /\ isDealing' = FALSE
    /\ shuffleFailures' = shuffleFailures + 1
    /\ UNCHANGED <<gameState, handCounter, showdownData>>

\* The error dialog's Retry: retryLastShuffle, lastShuffleAction being nextHand.
retryLastShuffle ==
    /\ dealingError
    /\ ~isDealing
    /\ dealingError' = FALSE
    /\ nextHand

\* The error dialog's Close.
CloseError ==
    /\ dealingError
    /\ dealingError' = FALSE
    /\ UNCHANGED <<gameState, handCounter, showdownData, isDealing, shuffleFailures>>

EngineNext ==
    \/ Fold /\ UNCHANGED <<ledgerVars, revealVars, shuffleVars, requestVars, evalVars, passiveVars, hostVars>>
    \/ Check /\ UNCHANGED <<ledgerVars, revealVars, shuffleVars, requestVars, evalVars, passiveVars, hostVars>>
    \/ CallBet /\ UNCHANGED <<ledgerVars, revealVars, shuffleVars, requestVars, evalVars, passiveVars, hostVars>>
    \/ Raise /\ UNCHANGED <<ledgerVars, revealVars, shuffleVars, requestVars, evalVars, passiveVars, hostVars>>
    \/ AllIn /\ UNCHANGED <<ledgerVars, revealVars, shuffleVars, requestVars, evalVars, passiveVars, hostVars>>
    \/ NextHand /\ UNCHANGED <<ledgerVars, revealVars, shuffleVars, requestVars, evalVars, passiveVars, hostVars>>
    \/ ShuffleArrived /\ UNCHANGED <<ledgerVars, revealVars, shuffleVars, requestVars, evalVars, passiveVars, hostVars>>
    \/ ShuffleFailed /\ UNCHANGED <<ledgerVars, revealVars, shuffleVars, requestVars, evalVars, passiveVars, hostVars>>
    \/ retryLastShuffle /\ UNCHANGED <<ledgerVars, revealVars, shuffleVars, requestVars, evalVars, passiveVars, hostVars>>
    \/ CloseError /\ UNCHANGED <<ledgerVars, revealVars, shuffleVars, requestVars, evalVars, passiveVars, hostVars>>

SpecEngine == EngineInit /\ [][EngineNext]_vars

(***************************************************************************)
(* The long game: the table plays on without shuffle failures, to the      *)
(* setup of its last hand.                                                 *)
(***************************************************************************)
\* startGame and nextHand after their await, in the long game.
LongDeal ==
    /\ isDealing
    /\ handCounter < MaxLongHands
    /\ \E packedDeck \in PackedDecks :
         gameState' = startNewHandWithPackedDeck(gameState, packedDeck)
    /\ showdownData' = FALSE
    /\ handCounter' = handCounter + 1
    /\ isDealing' = FALSE
    /\ UNCHANGED <<dealingError, shuffleFailures>>

\* The hands before the last one are played.
Played == handCounter < MaxLongHands

LongNext ==
    \/ Played /\ Fold /\ UNCHANGED <<ledgerVars, revealVars, shuffleVars, requestVars, evalVars, passiveVars, hostVars>>
    \/ Played /\ Check /\ UNCHANGED <<ledgerVars, revealVars, shuffleVars, requestVars, evalVars, passiveVars, hostVars>>
    \/ Played /\ CallBet /\ UNCHANGED <<ledgerVars, revealVars, shuffleVars, requestVars, evalVars, passiveVars, hostVars>>
    \/ Played /\ Raise /\ UNCHANGED <<ledgerVars, revealVars, shuffleVars, requestVars, evalVars, passiveVars, hostVars>>
    \/ Played /\ AllIn /\ UNCHANGED <<ledgerVars, revealVars, shuffleVars, requestVars, evalVars, passiveVars, hostVars>>
    \/ NextHand /\ UNCHANGED <<ledgerVars, revealVars, shuffleVars, requestVars, evalVars, passiveVars, hostVars>>
    \/ LongDeal /\ UNCHANGED <<ledgerVars, revealVars, shuffleVars, requestVars, evalVars, passiveVars, hostVars>>

SpecLong == EngineInit /\ [][LongNext]_vars

(***************************************************************************)
(* The long game at a table created with other settings: createTable hands *)
(* the creator's stack and blinds to the engine.                           *)
(***************************************************************************)
\* new PokerEngine(players, startingChips, false, smallBlind, bigBlind)
PokerEngine(startingChips, smallBlind, bigBlind) ==
    [NewEngine EXCEPT !.players = [p \in PlayerIds |-> [NewPlayer EXCEPT !.chips = startingChips]],
                      !.smallBlind = smallBlind,
                      !.bigBlind = bigBlind,
                      !.lastRaiseAmount = bigBlind]

TableInit ==
    /\ LedgerInit
    /\ RevealIdle
    /\ ShuffleIdle
    /\ gameState = PokerEngine(TableStartingChips, TableSmallBlind, TableBigBlind)
    /\ handCounter = 0
    /\ showdownData = FALSE
    /\ isDealing = TRUE
    /\ dealingError = FALSE
    /\ shuffleFailures = 0
    /\ actionReq = NoRequest
    /\ lastOrigin = "none"
    /\ evHandA = <<>>
    /\ evHandB = <<>>
    /\ evResult = <<>>
    /\ sdWinners = NoShowdownData
    /\ passive = FALSE
    /\ passiveNext = NewEngine
    /\ HostIdle

SpecTable == TableInit /\ [][LongNext]_vars

(***************************************************************************)
(* The passive specification: a game played as in the engine               *)
(* specification until, in the middle of a hand, every seat turns passive: *)
(* from then on the seat to act checks when it faces no bet and calls      *)
(* otherwise, and nothing else happens.  bettingActions, which only        *)
(* counts, stops at MaxBettingActions.                                     *)
(***************************************************************************)
\* What performAction('check') or performAction('call') leaves of gs: the seat
\* to act checks when it faces no bet and calls otherwise.
PassiveResult(gs) ==
    LET idx == gs.currentPlayerIndex
        toCall == gs.currentBet - gs.players[idx].currentBet
        after == IF toCall = 0 THEN check(gs, idx) ELSE call(gs, idx)
    IN [after EXCEPT !.bettingActions = Min2(@, MaxBettingActions)]

\* The seats turn passive; the host works out what the first action leaves.
TurnPassive ==
    /\ ~passive
    /\ handCounter >= 1
    /\ ~isDealing
    /\ gameState.stage # Showdown
    /\ passive' = TRUE
    /\ passiveNext' = PassiveResult(gameState)
    /\ UNCHANGED engineVars

\* The engine's part of a passive action: the GameState it leaves.
PassiveApplied ==
    /\ passive
    /\ gameState.stage # Showdown
    /\ gameState' = passiveNext

\* performAction('check') or performAction('call') for the seat to act
PassiveAction ==
    /\ PassiveApplied
    /\ passiveNext' = PassiveResult(passiveNext)
    /\ showdownData' = (passiveNext.stage = Showdown)
    /\ UNCHANGED <<handCounter, isDealing, dealingError, shuffleFailures, passive>>

\* A passive action as a step of the whole system.
PassiveStep ==
    PassiveAction /\ UNCHANGED <<ledgerVars, revealVars, shuffleVars, requestVars, evalVars, hostVars>>

PassiveNext ==
    \/ ~passive /\ ShuffleArrived /\ UNCHANGED <<ledgerVars, revealVars, shuffleVars, requestVars, evalVars, passiveVars, hostVars>>
    \/ ~passive /\ Fold /\ UNCHANGED <<ledgerVars, revealVars, shuffleVars, requestVars, evalVars, passiveVars, hostVars>>
    \/ ~passive /\ Check /\ UNCHANGED <<ledgerVars, revealVars, shuffleVars, requestVars, evalVars, passiveVars, hostVars>>
    \/ ~passive /\ CallBet /\ UNCHANGED <<ledgerVars, revealVars, shuffleVars, requestVars, evalVars, passiveVars, hostVars>>
    \/ ~passive /\ Raise /\ UNCHANGED <<ledgerVars, revealVars, shuffleVars, requestVars, evalVars, passiveVars, hostVars>>
    \/ ~passive /\ AllIn /\ UNCHANGED <<ledgerVars, revealVars, shuffleVars, requestVars, evalVars, passiveVars, hostVars>>
    \/ ~passive /\ NextHand /\ UNCHANGED <<ledgerVars, revealVars, shuffleVars, requestVars, evalVars, passiveVars, hostVars>>
    \/ TurnPassive /\ UNCHANGED <<ledgerVars, revealVars, shuffleVars, requestVars, evalVars, hostVars>>
    \/ PassiveStep

\* The host applies the action of the seat to act: a passive action that
\* changes the GameState is not put off for ever.
SpecPassive == EngineInit /\ [][PassiveNext]_vars /\ WF_gameState(PassiveApplied)

(***************************************************************************)
(* The request specification: the first hand of a game, every action       *)
(* reaching the host the way a client sends it.  The host's own client     *)
(* acts locally; the clients of the other seats write the shared action    *)
(* request, which the host's effect processes; the turn timer acts for a   *)
(* seat that lets its time run out.                                        *)
(***************************************************************************)
PlayerActions == {"fold", "check", "call", "raise", "allin"}

\* The amounts a client sends along: one of RaiseAmounts with a raise.
AmountsOf(action) == IF action = "raise" THEN RaiseAmounts ELSE {0}

\* A request that lets every seat act whenever it likes.
AnyTurn(seatName) == TRUE

\* The host's test that the seat of that name is the seat to act.
InTurn(seatName) == seatName = SeatName(gameState.currentPlayerIndex)

\* performAction on a client that is not the leader host: it writes the request.
SubmitRequest ==
    /\ handCounter >= 1
    /\ \E by \in PlayerIds \ {HostSeat}, action \in PlayerActions :
         \E amount \in AmountsOf(action) :
           actionReq' = [byName |-> SeatName(by), action |-> action,
                         amount |-> amount, pending |-> TRUE]
    /\ UNCHANGED <<engineVars, lastOrigin>>

\* The host's effect on the request: out of turn it returns and leaves the
\* request unprocessed; in turn it performs the action and marks it processed.
ProcessRequest ==
    /\ actionReq.pending
    /\ InTurn(actionReq.byName)
    /\ performAction(actionReq.action, actionReq.amount)
    /\ actionReq' = [actionReq EXCEPT !.pending = FALSE]
    /\ lastOrigin' = "remote"

\* performAction on the leader host, not from remote: the host's own seat.
LocalAction ==
    /\ InTurn(SeatName(HostSeat))
    /\ \E action \in PlayerActions :
         \E amount \in AmountsOf(action) : performAction(action, amount)
    /\ lastOrigin' = "local"
    /\ UNCHANGED actionReq

\* The turn timer has run out: the host checks for the seat to act when
\* nothing is to call, and folds it otherwise.
TurnTimeout ==
    LET player == gameState.players[gameState.currentPlayerIndex]
        toCall == gameState.currentBet - player.currentBet
    IN /\ ~isDealing
       /\ gameState.stage # Showdown
       /\ performAction(IF toCall = 0 THEN "check" ELSE "fold", 0)
       /\ lastOrigin' = "timer"
       /\ UNCHANGED actionReq

RequestNext ==
    \/ ShuffleArrived /\ UNCHANGED <<ledgerVars, revealVars, shuffleVars, requestVars, evalVars, passiveVars, hostVars>>
    \/ SubmitRequest /\ UNCHANGED <<ledgerVars, revealVars, shuffleVars, evalVars, passiveVars, hostVars>>
    \/ ProcessRequest /\ UNCHANGED <<ledgerVars, revealVars, shuffleVars, evalVars, passiveVars, hostVars>>
    \/ LocalAction /\ UNCHANGED <<ledgerVars, revealVars, shuffleVars, evalVars, passiveVars, hostVars>>
    \/ TurnTimeout /\ UNCHANGED <<ledgerVars, revealVars, shuffleVars, evalVars, passiveVars, hostVars>>

SpecRequests == EngineInit /\ [][RequestNext]_vars

(***************************************************************************)
(* The winners specification: a game in which the engine's public          *)
(* getShowdownData() and the context's nextHand() are called at any point  *)
(* of a hand; neither tests the stage.                                     *)
(***************************************************************************)
\* engine.getShowdownData(): evaluateWinners()
GetShowdownData ==
    /\ handCounter >= 1
    /\ ~isDealing
    /\ sdWinners' = [called |-> TRUE, winners |-> evaluateWinners(gameState)]
    /\ UNCHANGED <<evHandA, evHandB, evResult>>

\* The deck of one of the specification's hands has arrived.
DealArrived == handCounter < MaxWinnersHands /\ ShuffleArrived

\* nextHand() of the context, called whatever the stage is
NextHandAnytime ==
    /\ handCounter >= 1
    /\ ~isDealing
    /\ ~dealingError
    /\ nextHand
    /\ UNCHANGED dealingError

WinnersNext ==
    \/ DealArrived /\ UNCHANGED <<ledgerVars, revealVars, shuffleVars, requestVars, evalVars, passiveVars, hostVars>>
    \/ Fold /\ UNCHANGED <<ledgerVars, revealVars, shuffleVars, requestVars, evalVars, passiveVars, hostVars>>
    \/ Check /\ UNCHANGED <<ledgerVars, revealVars, shuffleVars, requestVars, evalVars, passiveVars, hostVars>>
    \/ CallBet /\ UNCHANGED <<ledgerVars, revealVars, shuffleVars, requestVars, evalVars, passiveVars, hostVars>>
    \/ Raise /\ UNCHANGED <<ledgerVars, revealVars, shuffleVars, requestVars, evalVars, passiveVars, hostVars>>
    \/ AllIn /\ UNCHANGED <<ledgerVars, revealVars, shuffleVars, requestVars, evalVars, passiveVars, hostVars>>
    \/ GetShowdownData /\ UNCHANGED <<ledgerVars, revealVars, shuffleVars, engineVars, requestVars, passiveVars, hostVars>>
    \/ NextHandAnytime /\ UNCHANGED <<ledgerVars, revealVars, shuffleVars, requestVars, evalVars, passiveVars, hostVars>>

SpecWinners == EngineInit /\ [][WinnersNext]_vars

(***************************************************************************)
(* The evaluation specification: evaluateHand applied to two hands of 5 to *)
(* 7 distinct cards, and the comparison evaluateWinners makes of the two.  *)
(* The hands come from a deal of mixed suits or from a deal of hearts.     *)
(***************************************************************************)
\* The cards the hands are made of, as bytes of a packed deck: Ah 2d 3c 4s
\* 5h 6d Ks 2h 7c, the first MaxEvalCards of them.
EvalPool == <<48, 1, 6, 11, 12, 17, 47, 0, 22>>

\* The pool's k-th cards, k in S, in the pool's order.
RECURSIVE HandOf(_)
HandOf(S) ==
    IF S = {} THEN <<>>
    ELSE HandOf(S \ {MaxOf(S)}) \o <<DecodeCard(EvalPool[MaxOf(S)])>>

\* A second, suited deal, of which a hand is five or six cards: Ah 2h 3h 4h 5h 6h.
SuitedPool == <<48, 0, 4, 8, 12, 16>>

RECURSIVE SuitedHandOf(_)
SuitedHandOf(S) ==
    IF S = {} THEN <<>>
    ELSE SuitedHandOf(S \ {MaxOf(S)}) \o <<DecodeCard(SuitedPool[MaxOf(S)])>>

EvalHands ==
    {HandOf(S) : S \in {T \in SUBSET (1 .. MaxEvalCards) : Cardinality(T) \in 5 .. 7}}
    \cup {SuitedHandOf(S) : S \in {T \in SUBSET (1 .. Len(SuitedPool)) : Cardinality(T) >= 5}}

EvalInit ==
    /\ LedgerInit
    /\ RevealIdle
    /\ ShuffleIdle
    /\ gameState = NewEngine
    /\ handCounter = 0
    /\ showdownData = FALSE
    /\ isDealing = FALSE
    /\ dealingError = FALSE
    /\ shuffleFailures = 0
    /\ actionReq = NoRequest
    /\ lastOrigin = "none"
    /\ evHandA \in EvalHands
    /\ evHandB \in EvalHands
    /\ evResult = <<>>
    /\ sdWinners = NoShowdownData
    /\ passive = FALSE
    /\ passiveNext = NewEngine
    /\ HostIdle

\* evaluateHand on both hands
EvaluateBoth ==
    /\ evResult = <<>>
    /\ evResult' = <<evaluateHand(evHandA), evaluateHand(evHandB)>>
    /\ UNCHANGED <<evHandA, evHandB, sdWinners>>

EvalNext ==
    \/ EvaluateBoth /\ UNCHANGED <<ledgerVars, revealVars, shuffleVars, engineVars, requestVars, passiveVars, hostVars>>

SpecEval == EvalInit /\ [][EvalNext]_vars

(***************************************************************************)
(* The leader specification: the tabs of the host's browser on one room,   *)
(* their leader election effect and the lease in localStorage.             *)
(***************************************************************************)
\* lease time
LEADER_TTL_MS == 5000

\* isHost: tableSettings?.creatorId === clientId
isHost(t) == tabs[t].open /\ creatorId # NoItem /\ creatorId = tabs[t].clientId

\* JSON.stringify({ clientId, expiresAt: now + LEADER_TTL_MS })
Lease(clientId) == <<[clientId |-> clientId, expiresAt |-> now + LEADER_TTL_MS]>>

\* claimOrRefresh() of a tab with this clientId: the lease it leaves and the
\* value it hands to setIsLeader
claimOrRefresh(clientId) ==
    LET data == localStorage.leader
    IN IF data = <<>> \/ data[1].expiresAt < now
       THEN [leader |-> Lease(clientId), isLeader |-> TRUE]
       ELSE [leader |-> data, isLeader |-> (data[1].clientId = clientId)]

\* A tab is opened on the room: clientId is read from localStorage, or drawn
\* and stored there.
OpenTab(t) ==
    /\ ~tabs[t].open
    /\ \E id \in ClientIds :
         LET clientId == IF localStorage.clientId = NoItem THEN id ELSE localStorage.clientId
         IN /\ localStorage' = [localStorage EXCEPT !.clientId = clientId]
            /\ tabs' = [tabs EXCEPT ![t] = [ClosedTab EXCEPT !.open = TRUE, !.clientId = clientId]]
    /\ UNCHANGED <<creatorId, now>>

\* createTable in a tab: the shared table settings name its clientId.
createTable(t) ==
    /\ tabs[t].open
    /\ creatorId' = tabs[t].clientId
    /\ UNCHANGED <<localStorage, tabs, now>>

\* The leader election effect of a tab runs: after the first render and
\* after every render that changed isHost or isLeader.
LeaderEffect(t) ==
    /\ tabs[t].open
    /\ \/ ~tabs[t].ran
       \/ tabs[t].depHost # isHost(t)
       \/ tabs[t].depLeader # tabs[t].isLeader
    /\ IF ~isHost(t)
       THEN /\ tabs' = [tabs EXCEPT ![t] = [@ EXCEPT !.ran = TRUE, !.depHost = FALSE,
                                               !.depLeader = tabs[t].isLeader,
                                               !.isLeader = FALSE, !.listening = FALSE]]
            /\ UNCHANGED localStorage
       ELSE LET claimed == claimOrRefresh(tabs[t].clientId)
            IN /\ tabs' = [tabs EXCEPT ![t] = [@ EXCEPT !.ran = TRUE, !.depHost = TRUE,
                                                  !.depLeader = tabs[t].isLeader,
                                                  !.isLeader = claimed.isLeader, !.listening = TRUE]]
               /\ localStorage' = [localStorage EXCEPT !.leader = claimed.leader]
    /\ UNCHANGED <<creatorId, now>>

\* The heartbeat timer of a tab fires.
Heartbeat(t) ==
    /\ tabs[t].open
    /\ tabs[t].listening
    /\ IF ~tabs[t].depLeader
       THEN LET claimed == claimOrRefresh(tabs[t].clientId)
            IN /\ tabs' = [tabs EXCEPT ![t].isLeader = claimed.isLeader]
               /\ localStorage' = [localStorage EXCEPT !.leader = claimed.leader]
       ELSE /\ localStorage' = [localStorage EXCEPT !.leader = Lease(tabs[t].clientId)]
            /\ UNCHANGED tabs
    /\ UNCHANGED <<creatorId, now>>

\* visibilitychange or focus in a tab
onVisOrFocus(t) ==
    /\ tabs[t].open
    /\ tabs[t].listening
    /\ LET claimed == claimOrRefresh(tabs[t].clientId)
       IN /\ tabs' = [tabs EXCEPT ![t].isLeader = claimed.isLeader]
          /\ localStorage' = [localStorage EXCEPT !.leader = claimed.leader]
    /\ UNCHANGED <<creatorId, now>>

\* A tab is closed: beforeunload, where the effect listens to it.
onUnload(t) ==
    /\ tabs[t].open
    /\ LET data == localStorage.leader
       IN localStorage' = IF tabs[t].listening /\ data # <<>> /\ data[1].clientId = tabs[t].clientId
                          THEN [localStorage EXCEPT !.leader = <<>>]
                          ELSE localStorage
    /\ tabs' = [tabs EXCEPT ![t] = ClosedTab]
    /\ UNCHANGED <<creatorId, now>>

\* Time passes.
Tick ==
    /\ now < MaxNow * TickMs
    /\ now' = now + TickMs
    /\ UNCHANGED <<localStorage, tabs, creatorId>>

LeaderNext ==
    \/ \E t \in Tabs : OpenTab(t) /\ UNCHANGED <<ledgerVars, revealVars, shuffleVars, engineVars, requestVars, evalVars, passiveVars, startVars>>
    \/ \E t \in Tabs : createTable(t) /\ UNCHANGED <<ledgerVars, revealVars, shuffleVars, engineVars, requestVars, evalVars, passiveVars, startVars>>
    \/ \E t \in Tabs : LeaderEffect(t) /\ UNCHANGED <<ledgerVars, revealVars, shuffleVars, engineVars, requestVars, evalVars, passiveVars, startVars>>
    \/ \E t \in Tabs : Heartbeat(t) /\ UNCHANGED <<ledgerVars, revealVars, shuffleVars, engineVars, requestVars, evalVars, passiveVars, startVars>>
    \/ \E t \in Tabs : onVisOrFocus(t) /\ UNCHANGED <<ledgerVars, revealVars, shuffleVars, engineVars, requestVars, evalVars, passiveVars, startVars>>
    \/ \E t \in Tabs : onUnload(t) /\ UNCHANGED <<ledgerVars, revealVars, shuffleVars, engineVars, requestVars, evalVars, passiveVars, startVars>>
    \/ Tick /\ UNCHANGED <<ledgerVars, revealVars, shuffleVars, engineVars, requestVars, evalVars, passiveVars, startVars>>

SpecLeader == Init /\ [][LeaderNext]_vars

(***************************************************************************)
(* The start specification: the leader host starts the game at the table.  *)
(***************************************************************************)
\* startGame, up to its await: the engine is built and the shuffle requested.
startGame(caller) ==
    /\ gameState' = NewEngine
    /\ hasEngine' = TRUE
    /\ isDealing' = TRUE
    /\ startCaller' = caller
    /\ UNCHANGED <<handCounter, showdownData, shuffleFailures, gameStarted, sharedGame, lastShuffleAction>>

\* The Start Game button: beginGame, up to the await in startGame.
beginGame ==
    /\ ~gameStarted
    /\ startCaller = "none"
    /\ startGame("beginGame")
    /\ UNCHANGED dealingError

\* startGame after its await, the deck having arrived, and what its caller
\* does once startGame has returned.
StartShuffleArrived ==
    /\ isDealing
    /\ startCaller # "none"
    /\ \E packedDeck \in PackedDecks :
         gameState' = startNewHandWithPackedDeck(gameState, packedDeck)
    /\ sharedGame' = <<gameState'>>
    /\ handCounter' = 1
    /\ showdownData' = FALSE
    /\ gameStarted' = TRUE
    /\ isDealing' = FALSE
    /\ startCaller' = "none"
    /\ UNCHANGED <<dealingError, shuffleFailures, hasEngine, lastShuffleAction>>

\* startGame after its await, the shuffle having failed, and what its caller
\* does once startGame has returned.
StartShuffleFailed ==
    /\ isDealing
    /\ startCaller # "none"
    /\ shuffleFailures < MaxShuffleFailures
    /\ hasEngine' = FALSE
    /\ dealingError' = TRUE
    /\ lastShuffleAction' = "startGame"
    /\ isDealing' = FALSE
    /\ shuffleFailures' = shuffleFailures + 1
    /\ gameStarted' = IF startCaller = "beginGame" THEN TRUE ELSE gameStarted
    /\ startCaller' = "none"
    /\ UNCHANGED <<gameState, handCounter, showdownData, sharedGame>>

\* The error dialog's Retry: retryLastShuffle, lastShuffleAction being startGame.
retryStartGame ==
    /\ dealingError
    /\ lastShuffleAction = "startGame"
    /\ startCaller = "none"
    /\ dealingError' = FALSE
    /\ startGame("retryLastShuffle")

\* The error dialog's Close, before the game.
CloseStartError ==
    /\ CloseError
    /\ UNCHANGED startVars

\* performAction on the leader host publishes the GameState it leaves.
Published(action) ==
    /\ hasEngine
    /\ action
    /\ sharedGame' = <<gameState'>>
    /\ UNCHANGED <<gameStarted, hasEngine, lastShuffleAction, startCaller>>

StartNext ==
    \/ beginGame /\ UNCHANGED <<ledgerVars, revealVars, shuffleVars, requestVars, evalVars, passiveVars, leaderVars>>
    \/ StartShuffleArrived /\ UNCHANGED <<ledgerVars, revealVars, shuffleVars, requestVars, evalVars, passiveVars, leaderVars>>
    \/ StartShuffleFailed /\ UNCHANGED <<ledgerVars, revealVars, shuffleVars, requestVars, evalVars, passiveVars, leaderVars>>
    \/ retryStartGame /\ UNCHANGED <<ledgerVars, revealVars, shuffleVars, requestVars, evalVars, passiveVars, leaderVars>>
    \/ CloseStartError /\ UNCHANGED <<ledgerVars, revealVars, shuffleVars, requestVars, evalVars, passiveVars, leaderVars>>
    \/ Published(Fold) /\ UNCHANGED <<ledgerVars, revealVars, shuffleVars, requestVars, evalVars, passiveVars, leaderVars>>
    \/ Published(Check) /\ UNCHANGED <<ledgerVars, revealVars, shuffleVars, requestVars, evalVars, passiveVars, leaderVars>>
    \/ Published(CallBet) /\ UNCHANGED <<ledgerVars, revealVars, shuffleVars, requestVars, evalVars, passiveVars, leaderVars>>
    \/ Published(Raise) /\ UNCHANGED <<ledgerVars, revealVars, shuffleVars, requestVars, evalVars, passiveVars, leaderVars>>
    \/ Published(AllIn) /\ UNCHANGED <<ledgerVars, revealVars, shuffleVars, requestVars, evalVars, passiveVars, leaderVars>>

SpecStart == Init /\ [][StartNext]_vars

(***************************************************************************)
(* Properties of the ledger and the shuffle.                               *)
(***************************************************************************)
\* The deck a reveal of the drawn salt replays, given the session's random value.
ReplayedDeck == _shuffle(Keccak(<<games[TheGame].pythSeed, rvSalt>>))

AllPositionsValid == \A i \in 1 .. Len(rvPositions) : rvPositions[i] < DeckSize

AllClaimsMatch ==
    \A i \in 1 .. Len(rvCards) : rvCards[i] = ReplayedDeck[rvPositions[i] + 1]

RevealStep == lastCall'.op = "revealAndVerify"

\* C1: fairness round trip.  A reveal of the committed salt on a fulfilled,
\* not yet ended session whose claimed positions are all < 52 goes through;
\* it returns and records valid = TRUE when every claimed card is the card
\* of the replayed deck at its position, and valid = FALSE as soon as one
\* claimed card differs from the card at its position.
C1_RoundTrip ==
    [][(/\ RevealStep
        /\ games[TheGame].saltHash = Keccak(<<rvSalt>>)
        /\ games[TheGame].vrfFulfilled
        /\ ~games[TheGame].gameEnded
        /\ Len(rvCards) = Len(rvPositions)
        /\ AllPositionsValid)
       => (/\ lastCall'.ok
           /\ lastCall'.valid = AllClaimsMatch
           /\ games'[TheGame].verified = AllClaimsMatch
           /\ games'[TheGame].gameEnded)]_vars

C1_Witness ==
    /\ lastCall.op = "revealAndVerify"
    /\ lastCall.ok
    /\ lastCall.valid
    /\ games[TheGame].verified
    /\ Len(rvCards) = MaxDealt

\* C2: a reveal whose salt does not hash to the session's saltHash reverts,
\* whatever the other arguments are, and writes nothing to the session.
C2_SaltMismatchFails ==
    [][(RevealStep /\ Keccak(<<rvSalt>>) # games[TheGame].saltHash)
       => (/\ ~lastCall'.ok
           /\ games' = games
           /\ seqToGameId' = seqToGameId)]_vars

C2_Witness ==
    /\ lastCall.op = "revealAndVerify"
    /\ ~lastCall.ok
    /\ games[TheGame].vrfFulfilled
    /\ ~games[TheGame].gameEnded
    /\ Len(rvCards) = Len(rvPositions)
    /\ AllPositionsValid
    /\ AllClaimsMatch
    /\ Keccak(<<rvSalt>>) # games[TheGame].saltHash

\* C3: the output of _shuffle (both contracts) is 52 bytes in which every
\* card index 0..51 occurs exactly once.
IsPermutation(packed) ==
    /\ Len(packed) = DeckSize
    /\ \A c \in 0 .. (DeckSize - 1) :
         Cardinality({k \in 1 .. DeckSize : packed[k] = c}) = 1

C3_ShuffleIsPermutation ==
    /\ shPacked # <<>> => IsPermutation(shPacked)
    /\ shPackedV1 # <<>> => IsPermutation(shPackedV1)

C3_Witness ==
    /\ shPacked # <<>>
    /\ shPackedV1 # <<>>
    /\ shPacked # IdentityDeck
    /\ shSeed = MaxSeed

\* C4: a reveal on a session whose random value has not been delivered
\* reverts and changes nothing, and no session is ended without having been
\* fulfilled.
C4_NoRevealBeforeFulfilment ==
    [][/\ (RevealStep /\ ~games[lastCall'.gameId].vrfFulfilled)
            => (~lastCall'.ok /\ games' = games /\ seqToGameId' = seqToGameId)
       /\ \A g \in GameIds :
            games'[g].gameEnded => (games[g].vrfFulfilled /\ games'[g].vrfFulfilled)]_vars

C4_Witness ==
    /\ lastCall.op = "revealAndVerify"
    /\ ~lastCall.ok
    /\ games[lastCall.gameId].sequenceNumber # 0
    /\ ~games[lastCall.gameId].vrfFulfilled
    /\ \E g \in GameIds : games[g].gameEnded

\* C5: commitSalt on a committed session reverts, and a session's saltHash,
\* once set, is the same after every later call.
C5_CommitOnce ==
    [][/\ (lastCall'.op = "commitSalt" /\ games[lastCall'.gameId].saltHash # 0)
            => ~lastCall'.ok
       /\ \A g \in GameIds :
            games[g].saltHash # 0 => games'[g].saltHash = games[g].saltHash]_vars

C5_Witness ==
    /\ lastCall.op = "commitSalt"
    /\ ~lastCall.ok
    /\ games[lastCall.gameId].saltHash # 0
    /\ games[lastCall.gameId].gameEnded

\* C6: a session's phase never decreases; requestShuffle goes through only
\* on a committed session that has made no request, revealAndVerify only on
\* a fulfilled session that has not ended.
Phase(game) ==
    IF game.gameEnded THEN 4
    ELSE IF game.vrfFulfilled THEN 3
    ELSE IF game.sequenceNumber # 0 THEN 2
    ELSE IF game.saltHash # 0 THEN 1
    ELSE 0

WellPhased(game) ==
    /\ game.gameEnded => game.vrfFulfilled
    /\ game.vrfFulfilled => game.sequenceNumber # 0
    /\ game.sequenceNumber # 0 => game.saltHash # 0

C6_PhasesForward ==
    [][/\ \A g \in GameIds :
            /\ Phase(games'[g]) >= Phase(games[g])
            /\ WellPhased(games'[g])
       /\ (lastCall'.op = "requestShuffle" /\ lastCall'.ok)
            => (/\ Phase(games[lastCall'.gameId]) = 1
                /\ Phase(games'[lastCall'.gameId]) = 2)
       /\ (RevealStep /\ lastCall'.ok)
            => (/\ Phase(games[lastCall'.gameId]) = 3
                /\ Phase(games'[lastCall'.gameId]) = 4)]_vars

C6_Witness ==
    /\ lastCall.op = "requestShuffle"
    /\ ~lastCall.ok
    /\ Phase(games[lastCall.gameId]) = 4
    /\ \E g \in GameIds : Phase(games[g]) = 2

\* C7: every session field is written at most once: pythSeed is the same
\* after any call made once the session is fulfilled, and revealedSalt,
\* gameEnded and verified are the same after any call made once it has ended.
C7_WriteOnce ==
    [][\A g \in GameIds :
         /\ games[g].vrfFulfilled
              => (games'[g].pythSeed = games[g].pythSeed /\ games'[g].vrfFulfilled)
         /\ games[g].gameEnded
              => (/\ games'[g].revealedSalt = games[g].revealedSalt
                  /\ games'[g].gameEnded
                  /\ games'[g].verified = games[g].verified)]_vars

\* C8: a callback whose sequence number no requestShuffle of this ledger
\* was issued reverts and changes no session.
Issued(seq) == seq # 0 /\ \E g \in GameIds : games[g].sequenceNumber = seq

C8_UnknownSequenceRejected ==
    [][(lastCall'.op = "entropyCallback" /\ ~Issued(lastCall'.seq))
       => (~lastCall'.ok /\ games' = games /\ seqToGameId' = seqToGameId)]_vars

C8_Witness ==
    /\ lastCall.op = "entropyCallback"
    /\ ~lastCall.ok
    /\ ~Issued(lastCall.seq)
    /\ lastCall.seq # 0
    /\ \E g \in GameIds : Phase(games[g]) = 2

\* C9 as claimed: a reveal whose claimed list holds a position >= 52, at
\* any index, reverts and leaves the session as it was.
RevealReady ==
    /\ games[TheGame].saltHash = Keccak(<<rvSalt>>)
    /\ games[TheGame].vrfFulfilled
    /\ ~games[TheGame].gameEnded
    /\ Len(rvCards) = Len(rvPositions)

C9_BadPositionAborts ==
    [][(RevealStep /\ RevealReady /\ ~AllPositionsValid)
       => (~lastCall'.ok /\ games' = games)]_vars

\* C9 as amended: a position >= 52 reverts the reveal, leaving the session
\* as it was, when every pair before it matches the deck; when a pair before
\* it mismatches, the loop stops there, the position is never examined and
\* the reveal goes through with valid = FALSE, ending the session.
ClaimMatches(i) ==
    /\ rvPositions[i] < DeckSize
    /\ rvCards[i] = ReplayedDeck[rvPositions[i] + 1]

BadPositionBeforeMismatch ==
    \E i \in 1 .. Len(rvPositions) :
        /\ ~(rvPositions[i] < DeckSize)
        /\ \A k \in 1 .. (i - 1) : ClaimMatches(k)

C9_BadPositionAbortsUnlessMismatchFirst ==
    [][(RevealStep /\ RevealReady /\ ~AllPositionsValid)
       => IF BadPositionBeforeMismatch
          THEN ~lastCall'.ok /\ games' = games
          ELSE /\ lastCall'.ok
               /\ ~lastCall'.valid
               /\ games'[TheGame].gameEnded
               /\ ~games'[TheGame].verified
               /\ games'[TheGame].revealedSalt = rvSalt]_vars

C9_Witness ==
    /\ lastCall.op = "revealAndVerify"
    /\ ~lastCall.ok
    /\ RevealReady
    /\ Len(rvPositions) = MaxDealt
    /\ ClaimMatches(1)
    /\ BadPositionBeforeMismatch

(***************************************************************************)
(* Properties of the engine.                                               *)
(***************************************************************************)
SidePotTotal(sidePots) ==
    SumOver([k \in 1 .. Len(sidePots) |-> sidePots[k].amount], 1 .. Len(sidePots))

TotalContributed(gs) ==
    SumOver([p \in PlayerIds |-> gs.players[p].totalBetInRound], PlayerIds)

NonFolded(gs) == {p \in PlayerIds : ~gs.players[p].isFolded}

\* A step of nextHand up to its await (from either dialog): settlePot runs.
SettleStep == ~isDealing /\ isDealing'

\* C10: when settlePot computes side pots (two or more players have not
\* folded), their amounts sum to the pot, which is the sum of every
\* player's totalBetInRound.
C10_SidePotsSumToContributed ==
    [][(SettleStep /\ Cardinality(NonFolded(gameState)) > 1)
       => /\ gameState.pot = TotalContributed(gameState)
          /\ SidePotTotal(gameState'.sidePots) = gameState.pot]_vars

\* The totals at which a player who has not folded is all-in, lowest first:
\* one pot is formed at each, and a last one from the chips above the highest.
AllInLevels(gs) ==
    LET levels == {gs.players[p].totalBetInRound :
                      p \in {q \in NonFolded(gs) : gs.players[q].isAllIn}}
        down == Descending(levels)
    IN [k \in 1 .. Len(down) |-> down[Len(down) + 1 - k]]

LastAllInLevel(gs) ==
    IF AllInLevels(gs) = <<>> THEN 0 ELSE AllInLevels(gs)[Len(AllInLevels(gs))]

\* The non-folded players whose total contribution reaches a level / exceeds it
Reaching(gs, level) == {p \in NonFolded(gs) : gs.players[p].totalBetInRound >= level}
Above(gs, level) == {p \in NonFolded(gs) : gs.players[p].totalBetInRound > level}

\* C11: every pot settlement produces lists as eligible only non-folded
\* players whose total contribution reaches the pot's level: the k-th all-in
\* level for the k-th pot, and more than the last all-in level for the final
\* main pot (a player all-in for less is not eligible for it).
C11_EligibleReachLevel ==
    [][(SettleStep /\ Cardinality(NonFolded(gameState)) > 1)
       => LET levels == AllInLevels(gameState)
              sidePots == gameState'.sidePots
          IN \A k \in 1 .. Len(sidePots) :
               sidePots[k].eligiblePlayers \subseteq
                   IF k <= Len(levels) THEN Reaching(gameState, levels[k])
                   ELSE Above(gameState, LastAllInLevel(gameState))]_vars

\* A step of performAction in which the engine applies the action.
AppliedAction == gameState' # gameState /\ isDealing' = isDealing

\* The non-folded, non-all-in players all have the table's currentBet.
BetsMatched(gs) ==
    \A p \in NonFolded(gs) : gs.players[p].isAllIn \/ gs.players[p].currentBet = gs.currentBet

\* C12: an applied action after which the bets of the non-folded non-all-in
\* players match, and which was taken by the seat at lastToActIndex or hands
\* the turn to that seat, advances the stage in the same step: if the stage
\* is still the same after the action, the round is not complete in the
\* state the action leaves.
C12_RoundCompletesOnReturn ==
    [][(AppliedAction /\ gameState'.stage = gameState.stage)
       => ~(/\ BetsMatched(gameState')
            /\ \/ gameState.currentPlayerIndex = gameState'.lastToActIndex
               \/ gameState'.currentPlayerIndex = gameState'.lastToActIndex)]_vars

\* Some player can act: not folded, not all-in, with chips.
CanAct(gs) ==
    \E p \in PlayerIds : /\ ~gs.players[p].isFolded
                         /\ ~gs.players[p].isAllIn
                         /\ gs.players[p].chips > 0

\* An applied action that completes a betting round before the river with
\* two or more players left: the stage it leaves is a later one.
RoundCompletedEarly ==
    /\ AppliedAction
    /\ gameState.stage \in {PreFlop, Flop, Turn}
    /\ gameState'.stage # gameState.stage
    /\ Cardinality(NonFolded(gameState')) > 1

\* C13: when an action completes a betting round before the river and no
\* remaining player can act (each is folded or all-in), the same action
\* leaves the stage at Showdown with all 5 community cards dealt.
C13_AutoRunout ==
    [][(RoundCompletedEarly /\ ~CanAct(gameState'))
       => /\ gameState'.stage = Showdown
          /\ Len(gameState'.communityCards) = 5]_vars

\* The board has been run out: two or more players, all of them all-in, are
\* at Showdown with 5 community cards after no more actions than one each.
C13_Witness ==
    /\ gameState.stage = Showdown
    /\ Len(gameState.communityCards) = 5
    /\ Cardinality(NonFolded(gameState)) > 1
    /\ ~CanAct(gameState)
    /\ gameState.bettingActions <= NumPlayers

\* An applied action that folds a player.
FoldStep == AppliedAction /\ NonFolded(gameState') # NonFolded(gameState)

\* C14: a fold that leaves exactly one non-folded player leaves the stage at
\* Showdown, whatever the stage and the bets were; settlePot then adds the
\* entire pot to that player's chips and changes nobody else's, whatever the
\* cards are.
C14_FoldToOne ==
    [][/\ (FoldStep /\ Cardinality(NonFolded(gameState')) = 1)
          => gameState'.stage = Showdown
       /\ (SettleStep /\ Cardinality(NonFolded(gameState)) = 1)
          => \A p \in PlayerIds :
               gameState'.players[p].chips =
                   IF p \in NonFolded(gameState)
                   THEN gameState.players[p].chips + gameState.pot
                   ELSE gameState.players[p].chips]_vars

\* Everybody but one player has folded on the flop with bets unmatched, and
\* the pot has been settled.
C14_Witness ==
    /\ isDealing
    /\ gameState.stage = Showdown
    /\ Cardinality(NonFolded(gameState)) = 1
    /\ Len(gameState.communityCards) = 3
    /\ ~BetsMatched(gameState)
    /\ gameState.pot > 0

\* The minimum a raise has to add to the table's bet: the big blind when no
\* bet exists on the street, else the size of the last raise.
RequiredMinimum(gs) == IF gs.currentBet = 0 THEN gs.bigBlind ELSE gs.lastRaiseAmount

\* An applied action that raises the table's currentBet within the street.
RaiseStep ==
    /\ AppliedAction
    /\ gameState'.stage = gameState.stage
    /\ gameState'.currentBet > gameState.currentBet

\* C15: a raise by a player who has chips left afterwards increases the
\* table's currentBet by the required minimum or more; only an all-in raises
\* by less.
C15_MinimumRaise ==
    [][(RaiseStep /\ gameState'.players[gameState.currentPlayerIndex].chips > 0)
       => gameState'.currentBet - gameState.currentBet >= RequiredMinimum(gameState)]_vars

\* A hand is being played: the host applies actions to the seat to act.
InPlay == handCounter >= 1 /\ ~isDealing /\ gameState.stage # Showdown

\* bet lets the seat to act through its first test (crypto.ts:230).
MayBet(gs, amount) ==
    LET player == gs.players[gs.currentPlayerIndex]
    IN ~player.isFolded /\ ~player.isAllIn /\ player.chips > 0 /\ amount > 0

\* C16: for the seat to act and an amount below the required minimum,
\* bet(amount) is a call when the seat's chips meet that minimum, and
\* otherwise wagers the amount, capped at the stack, as a bet (the seat's
\* total contribution grows by min(amount, chips)).
C16_BelowMinimumDegrades ==
    InPlay =>
      \A amount \in RaiseAmounts :
        LET idx == gameState.currentPlayerIndex
            player == gameState.players[idx]
            after == bet(gameState, idx, amount)
        IN (MayBet(gameState, amount) /\ amount < RequiredMinimum(gameState))
           => IF player.chips >= RequiredMinimum(gameState)
              THEN after = call(gameState, idx)
              ELSE after.players[idx].totalBetInRound =
                       player.totalBetInRound + Min2(amount, player.chips)

\* C16, as the code has it: for the seat to act and an amount below the
\* required minimum, bet(amount) is a call exactly when the amount is below
\* the seat's stack, whether or not the stack meets the minimum; an amount
\* that takes the whole stack is wagered as a bet and leaves the seat all-in.
C16_BelowMinimumDegradesUnlessAllIn ==
    InPlay =>
      \A amount \in RaiseAmounts :
        LET idx == gameState.currentPlayerIndex
            player == gameState.players[idx]
            after == bet(gameState, idx, amount)
        IN (MayBet(gameState, amount) /\ amount < RequiredMinimum(gameState))
           => IF amount < player.chips
              THEN after = call(gameState, idx)
              ELSE /\ after.players[idx].totalBetInRound =
                          player.totalBetInRound + player.chips
                   /\ after.players[idx].isAllIn

\* The seat to act has fewer chips than the required minimum and more than
\* the smallest amount it can try to bet.
C16_Witness ==
    /\ InPlay
    /\ MayBet(gameState, 1)
    /\ 1 < gameState.players[gameState.currentPlayerIndex].chips
    /\ gameState.players[gameState.currentPlayerIndex].chips < RequiredMinimum(gameState)

(***************************************************************************)
(* Properties of the host's handling of actions.                           *)
(***************************************************************************)
\* C17: the GameState is only ever mutated by an action of the seat at
\* currentPlayerIndex: a remote request the host applies was sent under the
\* name of the seat to act, a local action is applied when the host's own
\* seat is the seat to act, and the timer acts for the seat to act; what any
\* other seat submits changes nothing.
C17_OnlyCurrentSeatActs ==
    [][AppliedAction
       => \/ /\ lastOrigin' = "remote"
             /\ actionReq.pending
             /\ actionReq.byName = SeatName(gameState.currentPlayerIndex)
          \/ /\ lastOrigin' = "local"
             /\ HostSeat = gameState.currentPlayerIndex
             /\ actionReq' = actionReq
          \/ /\ lastOrigin' = "timer"
             /\ actionReq' = actionReq]_vars

\* A seat that is not to act has sent a request, and the host has since
\* applied other actions and left the request aside.
C17_Witness ==
    /\ InPlay
    /\ actionReq.pending
    /\ actionReq.byName # SeatName(gameState.currentPlayerIndex)
    /\ gameState.bettingActions > 0
    /\ lastOrigin = "local"

\* The amounts bet may be handed: none, and every amount of a raise.
BetAmounts == 0 .. MaxRaise

Funded(gs) == {p \in PlayerIds : gs.players[p].chips > 0}

\* A step in which the deck arrives and the host starts a hand.
DealStep == isDealing /\ ~isDealing' /\ handCounter' = handCounter + 1

\* What the claim says a heads-up hand looks like right after its setup:
\* the dealer has posted the small blind, the other player the big blind,
\* and the dealer is to act, no betting action counted.
HeadsUpSetup(before, gs) ==
    LET dealer == gs.dealerPosition
    IN /\ dealer \in Funded(before)
       /\ gs.players[dealer].currentBet = gs.smallBlind
       /\ \A other \in Funded(before) \ {dealer} : gs.players[other].currentBet = gs.bigBlind
       /\ gs.pot = gs.smallBlind + gs.bigBlind
       /\ gs.currentBet = gs.bigBlind
       /\ gs.currentPlayerIndex = dealer
       /\ gs.bettingActions = 0
       /\ gs.stage = PreFlop

\* C19: a hand started with exactly two players holding chips is set up
\* heads-up: dealer's currentBet = smallBlind, the other's = bigBlind, pot =
\* smallBlind + bigBlind, table currentBet = bigBlind, the dealer to act,
\* bettingActions = 0.
C19_HeadsUpSetup ==
    [][(DealStep /\ Cardinality(Funded(gameState)) = 2)
       => HeadsUpSetup(gameState, gameState')]_vars

\* C19, for stacks that cover the blinds: the same, when the dealer holds
\* more than the small blind and the other player the big blind or more.
C19_HeadsUpSetupCoveredBlinds ==
    [][(/\ DealStep
        /\ Cardinality(Funded(gameState)) = 2
        /\ \A p \in Funded(gameState) :
             IF p = gameState'.dealerPosition
             THEN gameState.players[p].chips > gameState.smallBlind
             ELSE gameState.players[p].chips >= gameState.bigBlind)
       => HeadsUpSetup(gameState, gameState')]_vars

\* A hand has just been set up heads-up: one seat is out of chips and out of
\* the hand, the blinds are in the pot and the dealer is to act.
C19_Witness ==
    /\ InPlay
    /\ gameState.bettingActions = 0
    /\ Cardinality({p \in PlayerIds : /\ gameState.players[p].chips = 0
                                       /\ gameState.players[p].totalBetInRound = 0}) = NumPlayers - 2
    /\ gameState.pot = gameState.smallBlind + gameState.bigBlind
    /\ gameState.currentBet = gameState.bigBlind
    /\ gameState.currentPlayerIndex = gameState.dealerPosition
    /\ gameState.players[gameState.dealerPosition].currentBet = gameState.smallBlind
    /\ gameState.players[gameState.dealerPosition].chips > 0

(***************************************************************************)
(* Properties of the hand evaluation.  Standard poker is stated on its     *)
(* own: the score of five cards, and the best score over the five-card     *)
(* hands a set of cards contains.                                          *)
(***************************************************************************)
\* The ranks of five cards, most frequent first, highest first among equals.
StdOrder(five) == SortCountRanks(five, 5)

StdIsFlush(five) == \A k \in 2 .. 5 : five[k].suit = five[1].suit

\* The top rank of the straight five cards make (5 for the wheel), 0 if none.
StdStraightHigh(five) ==
    LET ranks == RankSet(five)
    IN IF Cardinality(ranks) # 5 THEN 0
       ELSE IF MaxOf(ranks) - MinOf(ranks) = 4 THEN MaxOf(ranks)
       ELSE IF ranks = {Ace, Two, Three, Four, Five} THEN Five
       ELSE 0

StdCategory(five) ==
    LET order == StdOrder(five)
        most == RankCount(five, order[1])
        next == IF Len(order) >= 2 THEN RankCount(five, order[2]) ELSE 0
        high == StdStraightHigh(five)
    IN IF StdIsFlush(five) /\ high = Ace THEN RoyalFlush
       ELSE IF StdIsFlush(five) /\ high > 0 THEN StraightFlush
       ELSE IF most = 4 THEN FourOfAKind
       ELSE IF most = 3 /\ next = 2 THEN FullHouse
       ELSE IF StdIsFlush(five) THEN Flush
       ELSE IF high > 0 THEN Straight
       ELSE IF most = 3 THEN ThreeOfAKind
       ELSE IF most = 2 /\ next = 2 THEN TwoPair
       ELSE IF most = 2 THEN OnePair
       ELSE HighCard

\* The category, then the ranks that break ties within it, as the digits of
\* a number in base 15: a straight by its top card, any other hand by its
\* ranks, most frequent first and highest first among equals.
StdScore(five) ==
    LET order == StdOrder(five)
        high == StdStraightHigh(five)
        digit(k) == IF high > 0 THEN (IF k = 1 THEN high ELSE 0)
                    ELSE IF k <= Len(order) THEN order[k] ELSE 0
    IN StdCategory(five) * (15 ^ 5) + digit(1) * (15 ^ 4) + digit(2) * (15 ^ 3)
       + digit(3) * (15 ^ 2) + digit(4) * 15 + digit(5)

\* The members of a set of five positions, lowest first.
SetToSeq5(T) == LET down == Descending(T) IN [k \in 1 .. 5 |-> down[6 - k]]

\* The best five-card hand a hand of five to seven cards contains.
StdBest(cards) ==
    MaxOf({StdScore([k \in 1 .. 5 |-> cards[SetToSeq5(T)[k]]]) :
              T \in {U \in SUBSET (1 .. Len(cards)) : Cardinality(U) = 5}})

\* The engine's comparison of two evaluations: category, then value.
EngineBeats(a, b) == a.rank > b.rank \/ (a.rank = b.rank /\ a.value > b.value)

\* C20: the engine's comparison of the evaluations of two hands of 5 to 7
\* distinct cards agrees with standard poker: A beats B exactly when A's
\* best five-card hand beats B's, and they tie exactly when those tie.
C20_AgreesWithStandardPoker ==
    evResult # <<>> =>
      LET bestA == StdBest(evHandA)
          bestB == StdBest(evHandB)
      IN /\ EngineBeats(evResult[1], evResult[2]) <=> bestA > bestB
         /\ EngineBeats(evResult[2], evResult[1]) <=> bestB > bestA

\* C21: the value field alone orders hands: of two evaluations, the one of
\* the higher category has the strictly larger value, and one value is the
\* larger exactly when its hand wins the comparison by category, then value.
C21_ValueOrdersHands ==
    evResult # <<>> =>
      LET e1 == evResult[1]
          e2 == evResult[2]
      IN /\ e1.rank > e2.rank => e1.value > e2.value
         /\ e1.value > e2.value <=> EngineBeats(e1, e2)

\* No five cards of the hand share a suit.
NoFlush(cards) ==
    \A s \in {suitValues[k] : k \in 1 .. 4} :
        Cardinality({k \in 1 .. Len(cards) : cards[k].suit = s}) < 5

\* The best straight the hand holds is the wheel / the six-high straight.
IsWheel(cards) == {Ace, Two, Three, Four, Five} \subseteq RankSet(cards) /\ 6 \notin RankSet(cards)
IsSixHigh(cards) == 2 .. 6 \subseteq RankSet(cards) /\ 7 \notin RankSet(cards)

\* C22: a hand whose straight is the wheel A-2-3-4-5 is never High Card and
\* never Royal Flush, and is a Straight when it holds no flush; such a hand
\* ranks strictly below a six-high straight 2-3-4-5-6 that holds no flush,
\* by category then value and by value alone.
C22_WheelIsLowStraight ==
    evResult # <<>> =>
      LET e1 == evResult[1]
          e2 == evResult[2]
      IN IsWheel(evHandA)
         => /\ e1.rank \notin {HighCard, RoyalFlush}
            /\ NoFlush(evHandA) => e1.rank = Straight
            /\ (NoFlush(evHandA) /\ NoFlush(evHandB) /\ IsSixHigh(evHandB))
               => /\ EngineBeats(e2, e1)
                  /\ e2.value > e1.value

(***************************************************************************)
(* Properties of winner determination without evaluations.                 *)
(***************************************************************************)
\* The cards evaluateWinners and settlePot hand evaluateHand for a player.
CardsOf(gs, p) == gs.players[p].holeCards \o gs.communityCards

\* Several players have not folded and none of them has five cards.
NoneEvaluable(gs) ==
    /\ Cardinality(NonFolded(gs)) > 1
    /\ \A p \in NonFolded(gs) : Len(CardsOf(gs, p)) < 5

\* A call of getShowdownData() that returns winners.
ShowdownDataStep == sdWinners' # sdWinners

\* The non-folded players with chips in the pot.
Contributors(gs) == {p \in NonFolded(gs) : gs.players[p].totalBetInRound > 0}

\* What the step adds to a player's chips.
Gain(p) == gameState'.players[p].chips - gameState.players[p].chips

\* evaluateHand fails on every hand of fewer than 5 cards, and with no hand
\* to evaluate getShowdownData() names all non-folded players as winners.
FallbackDeclaresAll ==
    /\ \A p \in PlayerIds :
         Len(CardsOf(gameState, p)) < 5
         => evaluateHand(CardsOf(gameState, p)) = InsufficientCards
    /\ (ShowdownDataStep /\ NoneEvaluable(gameState))
       => sdWinners'.winners = NonFolded(gameState)

StageOrder(stage) ==
    CASE stage = PreFlop -> 0
      [] stage = Flop -> 1
      [] stage = Turn -> 2
      [] stage = River -> 3
      [] stage = Showdown -> 4

\* A step within one hand: no hand is started.
SameHand == handCounter' = handCounter

\* The chips of every player.
ChipsOf(gs) == [p \in PlayerIds |-> gs.players[p].chips]

\* C24: within one hand no step moves the stage to an earlier one, and once
\* the stage is Showdown no player action changes the stage, the chips or
\* the pot (only the settlement of nextHand moves chips).
C24_StageForward ==
    [][SameHand
       => /\ StageOrder(gameState'.stage) >= StageOrder(gameState.stage)
          /\ (gameState.stage = Showdown /\ ~SettleStep)
             => /\ gameState'.stage = Showdown
                /\ ChipsOf(gameState') = ChipsOf(gameState)
                /\ gameState'.pot = gameState.pot]_vars

\* A hand has jumped from PreFlop straight to Showdown: everybody but one
\* player has folded before any community card was dealt.
C24_Witness ==
    /\ handCounter >= 1
    /\ ~isDealing
    /\ showdownData
    /\ gameState.stage = Showdown
    /\ gameState.communityCards = <<>>
    /\ gameState.pot > 0

C26_PassiveHandFinishes ==
    (passive /\ gameState.stage # Showdown) ~> (gameState.stage = Showdown)

(***************************************************************************)
(* Properties of the chips.                                                *)
(***************************************************************************)
\* The chips on the table: all the stacks together.
TotalChips(gs) == SumOver(ChipsOf(gs), PlayerIds)

\* A step in which a hand is set up: the deck arrives and at least two
\* players have chips (otherwise startNewHandInternal only sets Showdown).
SetupStep == DealStep /\ Cardinality(Funded(gameState)) >= 2

\* C27: chips are conserved while a hand is played.  Right after a hand's
\* setup the pot is the sum of the players' totalBetInRound and stacks plus
\* pot are the stacks the hand started from; every applied action keeps the
\* pot equal to that sum and keeps stacks plus pot what they were.
C27_ChipsConserved ==
    [][/\ SetupStep
          => /\ gameState'.pot = TotalContributed(gameState')
             /\ TotalChips(gameState') + gameState'.pot = TotalChips(gameState)
       /\ AppliedAction
          => /\ gameState'.pot = TotalContributed(gameState')
             /\ TotalChips(gameState') + gameState'.pot
                = TotalChips(gameState) + gameState.pot]_vars

\* A hand is past its first betting round with more than the blinds in the
\* pot: players have wagered after the setup.
C27_Witness ==
    /\ InPlay
    /\ gameState.stage # PreFlop
    /\ gameState.pot > gameState.smallBlind + gameState.bigBlind
    /\ gameState.pot = TotalContributed(gameState)

\* The Retry of a failed shuffle: nextHand runs again, for the hand that the
\* first nextHand has settled already.
RetryStep == dealingError /\ SettleStep

\* The chips the game started with.
StartingTotal == NumPlayers * StartingChips

\* C28: a hand's pot is paid out at most once.  The settlePot of a nextHand
\* that is retried after a failed shuffle increases no player's chips, and
\* the stacks together never exceed the chips the game started with.
C28_PotPaidOnce ==
    /\ [][RetryStep
          => \A p \in PlayerIds : gameState'.players[p].chips <= gameState.players[p].chips]_vars
    /\ [](TotalChips(gameState) <= StartingTotal)

(***************************************************************************)
(* Properties of the turn.                                                 *)
(***************************************************************************)
\* The seat can act: it has not folded, is not all-in and has chips.
AbleToAct(gs, p) ==
    /\ ~gs.players[p].isFolded
    /\ ~gs.players[p].isAllIn
    /\ gs.players[p].chips > 0

\* C29: while a hand is played and its stage is not Showdown, the seat at
\* currentPlayerIndex is able to act: it is not folded, not all-in and has
\* chips (right after the hand's setup and after every applied action).
C29_CurrentSeatCanAct ==
    InPlay => AbleToAct(gameState, gameState.currentPlayerIndex)

(***************************************************************************)
(* Properties of the seats without chips.                                  *)
(***************************************************************************)
\* The seats that have started the hand without chips: they have no chips
\* and have put nothing into the pot.
Broke(gs) == {p \in PlayerIds : gs.players[p].chips = 0 /\ gs.players[p].totalBetInRound = 0}

\* The players of the hand who have not folded.
Contenders(gs) == NonFolded(gs) \ Broke(gs)

\* C30: a seat that starts a hand without chips takes no part in it.  When a
\* fold leaves one player of the hand, the stage becomes Showdown; when the
\* pot is settled with one player of the hand left, that player gains the
\* whole pot; and no settlement gives chips to a seat that started the hand
\* without chips.
C30_BrokeSeatSitsOut ==
    [][/\ (FoldStep /\ Cardinality(Contenders(gameState')) = 1)
          => gameState'.stage = Showdown
       /\ (SettleStep /\ Cardinality(Contenders(gameState)) = 1)
          => \A p \in Contenders(gameState) : Gain(p) = gameState.pot
       /\ SettleStep
          => \A p \in Broke(gameState) : Gain(p) = 0]_vars

HighestBet(gs) == MaxOf({gs.players[p].currentBet : p \in PlayerIds})

\* C32: while a hand is played, the table's currentBet is the highest
\* currentBet of any player (also right after the blinds are posted).
C32_TableBetIsHighest ==
    InPlay => gameState.currentBet = HighestBet(gameState)

\* The player's numbers are in range.
InRange(player) ==
    /\ player.chips >= 0
    /\ 0 <= player.currentBet
    /\ player.currentBet <= player.totalBetInRound

\* The player is flagged all-in exactly when a wager of the hand has taken
\* the last chips.
AllInWhenExhausted(player) ==
    player.isAllIn <=> (player.chips = 0 /\ player.totalBetInRound > 0)

\* C33: every player has chips >= 0 and 0 <= currentBet <= totalBetInRound
\* in every state, and after every hand setup and every applied action a
\* player is flagged all-in exactly when a wager has brought the chips to 0.
C33_WagersCapped ==
    /\ [](\A p \in PlayerIds : InRange(gameState.players[p]))
    /\ [][(SetupStep \/ AppliedAction)
          => \A p \in PlayerIds : AllInWhenExhausted(gameState'.players[p])]_vars

\* A player is all-in for less than the table's bet: the wager was capped
\* at the chips the player had left.
C33_Witness ==
    /\ InPlay
    /\ \E p \in PlayerIds : /\ gameState.players[p].isAllIn
                             /\ gameState.players[p].chips = 0
                             /\ gameState.players[p].currentBet > 0
                             /\ gameState.players[p].currentBet < gameState.currentBet

(***************************************************************************)
(* Properties of the cards.                                                *)
(***************************************************************************)
RECURSIVE HoleCardsFrom(_, _)
\* The hole cards of the seats from p on, in seat order.
HoleCardsFrom(gs, p) ==
    IF p >= NumPlayers THEN <<>>
    ELSE gs.players[p].holeCards \o HoleCardsFrom(gs, p + 1)

\* Every card of the hand that is held or still in the deck.
CardsInHand(gs) == HoleCardsFrom(gs, 0) \o gs.communityCards \o gs.deck

NoCardTwice(cards) ==
    \A i, j \in 1 .. Len(cards) : i < j => cards[i] # cards[j]

\* later is what is left of earlier after cards were taken from its front.
ShrunkFromFront(earlier, later) ==
    /\ Len(later) <= Len(earlier)
    /\ later = SubSeq(earlier, Len(earlier) - Len(later) + 1, Len(earlier))

\* C34: with a deck that is a permutation of the 52 cards, no card of a hand
\* is held twice (hole cards, community cards and the remaining deck are
\* pairwise disjoint), and within a hand the deck only shrinks from the
\* front.
C34_NoCardTwice ==
    /\ [](handCounter >= 1 => NoCardTwice(CardsInHand(gameState)))
    /\ [][(handCounter >= 1 /\ SameHand)
          => ShrunkFromFront(gameState.deck, gameState'.deck)]_vars

\* The river is out: three burns, five community cards and two hole cards
\* a seat have left the deck.
C34_Witness ==
    /\ InPlay
    /\ gameState.stage = River
    /\ Len(gameState.communityCards) = 5
    /\ Len(gameState.deck) = DeckSize - 2 * NumPlayers - 8

\* The cards a packed deck decodes to.
DecodedDeck(packedDeck) == [k \in 1 .. DeckSize |-> DecodeCard(packedDeck[k])]

\* C35: hole cards are dealt round-robin from the front of the supplied
\* deck: at a hand's setup the seat at index i receives deck positions i and
\* n + i (counted from 0), and the 2n cards dealt are gone from the deck.
C35_RoundRobinDeal ==
    [][SetupStep
       => \E packedDeck \in PackedDecks :
            LET deck == DecodedDeck(packedDeck)
            IN /\ \A i \in PlayerIds :
                    gameState'.players[i].holeCards
                      = <<deck[i + 1], deck[NumPlayers + i + 1]>>
               /\ gameState'.deck = SubSeq(deck, 2 * NumPlayers + 1, DeckSize)]_vars

\* A hand has just been set up: every seat holds two cards and nothing else
\* has left the deck.
C35_Witness ==
    /\ InPlay
    /\ gameState.bettingActions = 0
    /\ gameState.communityCards = <<>>
    /\ \A i \in PlayerIds : Len(gameState.players[i].holeCards) = 2
    /\ Len(gameState.deck) = DeckSize - 2 * NumPlayers

\* The stage at a place of the order PreFlop, Flop, Turn, River, Showdown.
StageAt(k) == <<PreFlop, Flop, Turn, River, Showdown>>[k + 1]

\* The community cards dealt on entering a stage.
StreetCards(stage) == IF stage = Flop THEN 3 ELSE IF stage \in {Turn, River} THEN 1 ELSE 0

\* The community cards and the cards gone from the deck when a stage is on.
BoardSize(stage) == IF stage = Flop THEN 3 ELSE IF stage = Turn THEN 4 ELSE 5
GoneFromDeck(stage) == IF stage = Flop THEN 4 ELSE IF stage = Turn THEN 6 ELSE 8

RECURSIVE BoardFrom(_, _, _)
\* The deck and the community cards after the streets from one stage to a
\* later one: each of Flop, Turn and River takes one burn card off the deck
\* and then its community cards; Showdown takes nothing.
BoardFrom(from, to, board) ==
    IF StageOrder(from) >= StageOrder(to) THEN board
    ELSE LET next == StageAt(StageOrder(from) + 1)
             n == StreetCards(next)
         IN IF next = Showdown THEN board
            ELSE BoardFrom(next, to,
                           [deck |-> SubSeq(board.deck, n + 2, Len(board.deck)),
                            communityCards |-> board.communityCards
                                               \o SubSeq(board.deck, 2, n + 1)])

\* C36: entering Flop, Turn and River each takes one burn card off the front
\* of the deck and then deals 3, 1 and 1 community cards, so that the board
\* holds 3, 4 and 5 cards at Flop, Turn and River; this also holds for the
\* streets of an auto-runout; entering Showdown deals nothing (from River,
\* or when a fold leaves one player).
C36_BurnThenDeal ==
    /\ []((handCounter >= 1 /\ gameState.stage = PreFlop) => gameState.communityCards = <<>>)
    /\ []((handCounter >= 1 /\ gameState.stage \in {Flop, Turn, River})
          => /\ Len(gameState.communityCards) = BoardSize(gameState.stage)
             /\ Len(gameState.deck)
                = DeckSize - 2 * NumPlayers - GoneFromDeck(gameState.stage))
    /\ [][(handCounter >= 1 /\ SameHand /\ gameState'.stage # gameState.stage)
          => IF Cardinality(NonFolded(gameState')) = 1
             THEN /\ gameState'.communityCards = gameState.communityCards
                  /\ gameState'.deck = gameState.deck
             ELSE [deck |-> gameState'.deck, communityCards |-> gameState'.communityCards]
                  = BoardFrom(gameState.stage, gameState'.stage,
                              [deck |-> gameState.deck,
                               communityCards |-> gameState.communityCards])]_vars

\* An auto-runout from before the flop: all five community cards are out
\* after fewer actions than two betting rounds take.
C36_Witness ==
    /\ handCounter >= 1
    /\ ~isDealing
    /\ gameState.stage = Showdown
    /\ Len(gameState.communityCards) = 5
    /\ Len(gameState.deck) = DeckSize - 2 * NumPlayers - 8
    /\ gameState.bettingActions <= 4

(***************************************************************************)
(* Properties of the positions.                                            *)
(***************************************************************************)
\* How many seats to the left of from the seat s is (1 .. NumPlayers).
SeatsAfter(from, s) == ((s - from - 1 + 2 * NumPlayers) % NumPlayers) + 1

\* The first seat with chips to the left of from.
NextFunded(gs, from) ==
    CHOOSE s \in Funded(gs) :
        \A other \in Funded(gs) : SeatsAfter(from, s) <= SeatsAfter(from, other)

\* C37: at every hand setup the dealer moves to the next seat with chips
\* after the previous dealer; with exactly two seats with chips the dealer is
\* the small blind and the other seat the big blind; with three or more the
\* blinds are the next two seats with chips after the dealer; no seat
\* without chips is dealer or blind; and with fewer than two seats with
\* chips no hand is started: the stage becomes Showdown and nothing else
\* changes.
C37_PositionsRotate ==
    [][DealStep
       => IF Cardinality(Funded(gameState)) < 2
          THEN gameState' = [gameState EXCEPT !.stage = Showdown]
          ELSE LET dealer == NextFunded(gameState, gameState.dealerPosition)
                   other == NextFunded(gameState, dealer)
               IN /\ gameState'.dealerPosition = dealer
                  /\ IF Cardinality(Funded(gameState)) = 2
                     THEN /\ gameState'.smallBlindPosition = dealer
                          /\ gameState'.bigBlindPosition = other
                     ELSE /\ gameState'.smallBlindPosition = other
                          /\ gameState'.bigBlindPosition = NextFunded(gameState, other)
                  /\ {gameState'.dealerPosition, gameState'.smallBlindPosition,
                      gameState'.bigBlindPosition} \subseteq Funded(gameState)]_vars

\* A heads-up hand has just been set up at a table where a seat has no
\* chips: the dealer is the small blind and the seat without chips has no
\* position.
C37_Witness ==
    /\ InPlay
    /\ gameState.bettingActions = 0
    /\ Broke(gameState) # {}
    /\ gameState.smallBlindPosition = gameState.dealerPosition
    /\ gameState.bigBlindPosition # gameState.dealerPosition
    /\ Broke(gameState) \cap {gameState.dealerPosition, gameState.bigBlindPosition} = {}

(***************************************************************************)
(* Properties of the sessions.                                             *)
(***************************************************************************)
\* No session but G's changes in the step.
OnlySessionChanges(G) == \A g \in GameIds \ {G} : games'[g] = games[g]

\* The session the sequence number was issued to by requestShuffle.
IssuedTo(seq, G) == seq # 0 /\ games[G].sequenceNumber = seq

\* The frame of every call: commitSalt, requestShuffle and revealAndVerify
\* on G, and the callback for a sequence number issued to G, leave every
\* other session as it was.
SessionsFramed ==
    /\ lastCall'.op \in {"commitSalt", "requestShuffle", "revealAndVerify"}
       => OnlySessionChanges(lastCall'.gameId)
    /\ lastCall'.op = "entropyCallback"
       => \A G \in GameIds : IssuedTo(lastCall'.seq, G) => OnlySessionChanges(G)

\* The callback for a sequence number issued to G sets G's random value and
\* vrfFulfilled, and nothing else of G's record.
CallbackFulfils ==
    lastCall'.op = "entropyCallback"
    => \A G \in GameIds :
         IssuedTo(lastCall'.seq, G)
         => /\ games'[G].vrfFulfilled
            /\ games'[G].pythSeed \in RandomNumbers
            /\ games'[G] = [games[G] EXCEPT !.pythSeed = games'[G].pythSeed,
                                            !.vrfFulfilled = TRUE]

\* C38: sessions are independent: commitSalt, requestShuffle and
\* revealAndVerify on game id G, and the RNG callback for the sequence
\* number issued to G, change only G's session record (the callback sets
\* G's random value and vrfFulfilled); every other session is unchanged.
C38_SessionsIndependent ==
    [][SessionsFramed /\ CallbackFulfils]_vars

(***************************************************************************)
(* Properties of the host's tabs.                                          *)
(***************************************************************************)
\* The tabs that run the turn timer, the auto-actions and the shuffles.
Leaders == {t \in Tabs : isHost(t) /\ tabs[t].isLeader}

\* C39: host leader election.  Among the host tabs open on the room, at any
\* time at most one has isLeader = TRUE, whatever the order in which their
\* effect, heartbeat, focus and unload handlers run on the shared lease.
C39_OneLeader == Cardinality(Leaders) <= 1

(***************************************************************************)
(* Properties of the start of the game.                                    *)
(***************************************************************************)
\* The shuffle that beginGame asked for through startGame fails in the step.
StartFails == startCaller = "beginGame" /\ shuffleFailures' = shuffleFailures + 1

\* C40: if the on-chain shuffle fails while the host starts the game
\* (beginGame / startGame), the game is not started: gameStarted stays
\* FALSE, no GameState is published to the other clients, and the dealing
\* flag is cleared.
C40_FailedStartStartsNothing ==
    [][StartFails => ~gameStarted' /\ sharedGame' = <<>> /\ ~isDealing']_vars

====
